---- MODULE Spec2Model ----
(***************************************************************************)
(* Bulk playlist mutations (add / remove / move) with an idempotency guard, *)
(* a transactional Action Log and a daily quota ledger.                     *)
(*                                                                           *)
(* The route handlers, withTransaction and the quota ledger are translated  *)
(* from the sources.  The actions service (performBulkAdd/Remove/Move,      *)
(* getActionSummary) and the idempotency store are not among the sources    *)
(* and are modelled from the specification's sections 4.2 - 4.4.            *)
(***************************************************************************)
EXTENDS Integers, Sequences, FiniteSets, TLC

(* ------------------------------ bounds -------------------------------- *)

\* number of requests submitted in one behaviour
NReq == 2
\* largest number of target items in one payload
MaxItems == 2
\* largest number of target items in the payload of a request that arrives
\* after the first
MaxLaterItems == 1
\* number of videos of the ADD of scenario A (section 8)
ScenarioItems == 3

Requests == 1..NReq
Users == {"u1", "u2"}
Keys == {"k1"}
\* the request carries no idempotency key (undefined)
NoKey == "none"
Ops == {"ADD", "REMOVE", "MOVE"}
\* the earlier version of the bulk/move route
EarlierOps == {"MOVE_V1"}

(* ------------------------- program constants -------------------------- *)

METHOD_COST(m) ==
  CASE m = "playlistItems.list" -> 1
    [] m = "playlistItems.insert" -> 50
    [] m = "playlistItems.delete" -> 50
    [] m = "playlists.list" -> 1

DAILY_BUDGET == 10000
DEFAULT_RETENTION_DAYS == 35
DEFAULT_VACUUM_INTERVAL_DAYS == 7

\* Time is counted in seconds since 1970-01-01T00:00:00Z.  Pacific time
\* (America/Los_Angeles) is UTC minus this offset in winter (PST) ...
PT_OFFSET_SECONDS == 28800
\* ... and UTC minus this offset while daylight saving time is in force (PDT)
PDT_OFFSET_SECONDS == 25200
SECONDS_PER_DAY == 86400
\* maintainQuotaStore's throttle: 60 * 60 * 1000 ms, in seconds
MAINTENANCE_THROTTLE_SECONDS == 3600
\* maybeVacuum compares diffDays >= intervalDays - 0.001; 0.001 day is 86.4 s,
\* which over whole seconds is a slack of 86 s
VACUUM_SLACK_SECONDS == 86
\* the wall clock at the start of a behaviour: 23:59:59 PDT of day 291
\* (1970-10-19; 06:59:59 UTC of day 292), six days before daylight saving
\* time ends
START_TIME == 25253999

\* quota_meta holds no value for the key
NoMeta == -1

(* ------------------------------ state ---------------------------------- *)

VARIABLES
  pc,                 \* each request's position in its handler
  req,                \* each request's input: op, userId, key, n; the requests that had
                      \* returned when it arrived (prior); whether its key was
                      \* registered when it was checked (seen); a listing's query
                      \* parameters (all, pageToken)
  txAction,           \* the Action row (with its items) the service call works on
  txState,            \* "none" | "open" | "committed" | "rolledback"
  calls,              \* the remote calls a request has issued, in order
  cost,               \* the cost a request's service call has accumulated
  charged,            \* the units a request has written to the ledger (under "global")
  resp,               \* the response returned, or NoResp
  actions,            \* the committed Action Log: a set of Action rows
  idemKeys,           \* the registered idempotency keys
  quota_usage,        \* quota_usage rows: <<date_key, scope>> -> used
  quota_meta,         \* quota_meta: last_prune_pt, last_vacuum_pt
  lastMaintenanceMs,  \* _lastMaintenanceMs, in seconds
  now,                \* the wall clock, in seconds
  ledgerLog,          \* the calls made on the quota ledger directly, in order, each
                      \* with whether it ran the sweep and whether it compacted
  conn                \* the pooled connection of each withTransaction call: how
                      \* often it was acquired and how often released

vars == <<pc, req, txAction, txState, calls, cost, charged, resp, actions,
          idemKeys, quota_usage, quota_meta, lastMaintenanceMs, now, ledgerLog, conn>>

reqVars == <<pc, req, txAction, txState, calls, cost, charged, resp>>
quotaVars == <<quota_usage, quota_meta, lastMaintenanceMs>>

NoReq == [op |-> "none", userId |-> "none", key |-> NoKey, n |-> 0, prior |-> {},
          seen |-> FALSE, all |-> "none", pageToken |-> FALSE]
NoId == [key |-> NoKey, auto |-> 0]
NoRow == [id |-> NoId, type |-> "none", userId |-> "none", status |-> "none",
          items |-> <<>>, by |-> 0]
\* no connection was taken from the pool
NoConn == [acquired |-> 0, released |-> 0]
NoResp == [kind |-> "none", http |-> 0, code |-> "none", idempotent |-> FALSE,
           action |-> NoRow, list |-> <<>>, estimatedQuota |-> 0]

(* --------------------------- quota ledger ------------------------------- *)

Max(a, b) == IF a >= b THEN a ELSE b

\* mutant: the day key is the UTC date
todayKeyPT_utc(t) == t \div SECONDS_PER_DAY

\* the day number (days since 1970-01-01) of a calendar date
DaysFromCivil(y, m, d) ==
  LET yy == IF m <= 2 THEN y - 1 ELSE y
      era == yy \div 400
      yoe == yy - era * 400
      doy == (153 * (IF m > 2 THEN m - 3 ELSE m + 9) + 2) \div 5 + d - 1
      doe == yoe * 365 + yoe \div 4 - yoe \div 100 + doy
  IN era * 146097 + doe - 719468

\* the calendar year of a day number
YearOfDay(day) ==
  LET z == day + 719468
      era == z \div 146097
      doe == z - era * 146097
      yoe == (doe - doe \div 1460 + doe \div 36524 - doe \div 146096) \div 365
      doy == doe - (365 * yoe + yoe \div 4 - yoe \div 100)
      mp == (5 * doy + 2) \div 153
  IN yoe + era * 400 + (IF mp >= 10 THEN 1 ELSE 0)

\* 0 = Sunday; 1970-01-01 was a Thursday
Weekday(day) == (day + 4) % 7
FirstSundayFrom(day) == day + ((7 - Weekday(day)) % 7)
LastSundayUntil(day) == day - Weekday(day)

\* the day daylight saving time begins in America/Los_Angeles in year y
\* (from 1970 on): since 2007 the second Sunday of March, 1987-2006 the first
\* Sunday of April, before that the last Sunday of April (1974: January 6,
\* 1975: February 23)
DstStartDay(y) ==
  IF y >= 2007 THEN FirstSundayFrom(DaysFromCivil(y, 3, 8))
  ELSE IF y >= 1987 THEN FirstSundayFrom(DaysFromCivil(y, 4, 1))
  ELSE IF y = 1975 THEN DaysFromCivil(y, 2, 23)
  ELSE IF y = 1974 THEN DaysFromCivil(y, 1, 6)
  ELSE LastSundayUntil(DaysFromCivil(y, 4, 30))

\* the day it ends: since 2007 the first Sunday of November, before that the
\* last Sunday of October
DstEndDay(y) ==
  IF y >= 2007 THEN FirstSundayFrom(DaysFromCivil(y, 11, 1))
  ELSE LastSundayUntil(DaysFromCivil(y, 10, 31))

\* timeZone: "America/Los_Angeles": the offset of Pacific time from UTC at
\* instant t.  Daylight saving time begins at 02:00 PST (10:00 UTC) and ends at
\* 02:00 PDT (09:00 UTC).
PtOffsetAt(t) ==
  LET y == YearOfDay(t \div SECONDS_PER_DAY)
      from == DstStartDay(y) * SECONDS_PER_DAY + 7200 + PT_OFFSET_SECONDS
      until == DstEndDay(y) * SECONDS_PER_DAY + 7200 + PDT_OFFSET_SECONDS
  IN IF from <= t /\ t < until THEN PDT_OFFSET_SECONDS ELSE PT_OFFSET_SECONDS

\* todayKeyPT: the calendar day in Pacific time, as a day number
todayKeyPT(t) == (t - PtOffsetAt(t)) \div SECONDS_PER_DAY

\* pastKeyPT: the Pacific calendar date of now, minus N days of the calendar
\* (setDate; the process runs in UTC)
pastKeyPT(t, days) == todayKeyPT(t) - Max(0, days)

\* the quota store as one value
QStore == [usage |-> quota_usage, meta |-> quota_meta, last |-> lastMaintenanceMs]

getUsage(usage, dateKey, scope) ==
  IF <<dateKey, scope>> \in DOMAIN usage THEN usage[<<dateKey, scope>>] ELSE 0

setMeta(meta, key, value) == [meta EXCEPT ![key] = value]

\* how a pruneOldUsage call ends: it returns, its DELETE throws, or its DELETE
\* is done and the setMeta after it throws
PruneOutcomes == {"ok", "delete_throws", "setMeta_throws"}

\* mutant: the retention window is ignored, every row before today is deleted
pruneOldUsage_ignoresRetention(q, t, retentionDays, prune) ==
  LET cutoff == pastKeyPT(t, 0)
      keep == {k \in DOMAIN q.usage : ~(k[1] < cutoff)}
      deleted == [q EXCEPT !.usage = [k \in keep |-> q.usage[k]]]
  IN CASE prune = "delete_throws" -> q
       [] prune = "setMeta_throws" -> deleted
       [] OTHER -> [deleted EXCEPT
                      !.meta = setMeta(q.meta, "last_prune_pt", todayKeyPT(t))]

\* mutant: the row of the cutoff date is deleted too (date_key <= cutoff)
pruneOldUsage_inclusive(q, t, retentionDays, prune) ==
  LET cutoff == pastKeyPT(t, retentionDays)
      keep == {k \in DOMAIN q.usage : ~(k[1] <= cutoff)}
      deleted == [q EXCEPT !.usage = [k \in keep |-> q.usage[k]]]
  IN CASE prune = "delete_throws" -> q
       [] prune = "setMeta_throws" -> deleted
       [] OTHER -> [deleted EXCEPT
                      !.meta = setMeta(q.meta, "last_prune_pt", todayKeyPT(t))]

\* DELETE FROM quota_usage WHERE date_key < cutoff; then last_prune_pt := today.
\* prune: how the call ends; the store is as the statements that ran left it.
pruneOldUsage(q, t, retentionDays, prune) ==
  LET cutoff == pastKeyPT(t, retentionDays)
      keep == {k \in DOMAIN q.usage : ~(k[1] < cutoff)}
      deleted == [q EXCEPT !.usage = [k \in keep |-> q.usage[k]]]
  IN CASE prune = "delete_throws" -> q
       [] prune = "setMeta_throws" -> deleted
       [] OTHER -> [deleted EXCEPT
                      !.meta = setMeta(q.meta, "last_prune_pt", todayKeyPT(t))]

\* how a maybeVacuum call ends: it returns, its VACUUM throws, or its VACUUM
\* is done and the setMeta after it throws
VacuumOutcomes == {"ok", "vacuum_throws", "setMeta_throws"}

\* need: no compaction is recorded, or intervalDays have passed since the
\* recorded date, which is a Pacific date read back as midnight UTC
NeedsVacuum(q, t, intervalDays) ==
  LET last == q.meta["last_vacuum_pt"]
  IN \/ last = NoMeta
     \/ t - last * SECONDS_PER_DAY
          >= intervalDays * SECONDS_PER_DAY - VACUUM_SLACK_SECONDS

\* the VACUUM statement of a maybeVacuum call is executed to its end
Vacuums(q, t, intervalDays, vacuum) ==
  NeedsVacuum(q, t, intervalDays) /\ vacuum \in {"ok", "setMeta_throws"}

\* VACUUM when needed, then last_vacuum_pt := today.  vacuum: how the call
\* ends; an error of the VACUUM or of the setMeta after it is swallowed and
\* leaves last_vacuum_pt as it was.
maybeVacuum(q, t, intervalDays, vacuum) ==
  IF NeedsVacuum(q, t, intervalDays) /\ vacuum = "ok"
    THEN [q EXCEPT !.meta = setMeta(q.meta, "last_vacuum_pt", todayKeyPT(t))]
    ELSE q

\* mutant: the sweep is never throttled
Throttled_never(q, t) == FALSE

\* if (now - _lastMaintenanceMs < 60 * 60 * 1000) return
Throttled(q, t) == t - q.last < MAINTENANCE_THROTTLE_SECONDS

\* the throttled sweep: an error of pruneOldUsage is swallowed, the compaction
\* check runs after it in either case
maintainQuotaStore(q, t, prune, vacuum) ==
  IF Throttled(q, t)
    THEN q
    ELSE maybeVacuum(pruneOldUsage([q EXCEPT !.last = t], t, DEFAULT_RETENTION_DAYS,
                                   prune),
                     t, DEFAULT_VACUUM_INTERVAL_DAYS, vacuum)

\* the ways <<prune, vacuum>> the sweep of a ledger write can end at instant
\* t: a statement that is not reached (throttled sweep, no compaction needed)
\* has no outcome but "ok"
SweepOutcomes(q, t) ==
  IF Throttled(q, t)
    THEN {<<"ok", "ok">>}
    ELSE PruneOutcomes
           \X (IF NeedsVacuum(q, t, DEFAULT_VACUUM_INTERVAL_DAYS) THEN VacuumOutcomes
                                                                   ELSE {"ok"})

\* the same for recordQuota, which writes nothing for units <= 0
RecordOutcomes(q, t, units) ==
  IF units > 0 THEN SweepOutcomes(q, t) ELSE {<<"ok", "ok">>}

\* the ways maintenance() can end: no throttle; the compaction check is
\* reached when the prune returned
MaintenanceOutcomes(q, t) ==
  {o \in PruneOutcomes \X VacuumOutcomes :
     (o[1] # "ok" \/ ~NeedsVacuum(q, t, DEFAULT_VACUUM_INTERVAL_DAYS)) => o[2] = "ok"}

\* mutant: ON CONFLICT DO UPDATE SET used = excluded.used (the last writer wins)
upsertUsage_overwrite(usage, k, d) ==
  IF k \in DOMAIN usage THEN [usage EXCEPT ![k] = d] ELSE usage @@ (k :> d)

\* mutant: ON CONFLICT DO NOTHING (only the first increment counts)
upsertUsage_insertOnly(usage, k, d) ==
  IF k \in DOMAIN usage THEN usage ELSE usage @@ (k :> d)

\* INSERT ... ON CONFLICT(date_key, scope) DO UPDATE SET used = used + excluded.used
upsertUsage(usage, k, d) ==
  IF k \in DOMAIN usage THEN [usage EXCEPT ![k] = @ + d] ELSE usage @@ (k :> d)

\* addUsage: the upsert of max(0, delta), then the throttled maintenance
addUsage(q, t, dateKey, scope, delta, prune, vacuum) ==
  LET d == Max(0, delta)
      k == <<dateKey, scope>>
  IN maintainQuotaStore([q EXCEPT !.usage = upsertUsage(q.usage, k, d)], t, prune, vacuum)

\* mutant: the "global" row is forgotten when a userId is given
recordQuota_userOnly(q, t, units, userId, prune, vacuum) ==
  LET n == Max(0, units)
      tk == todayKeyPT(t)
  IN IF n = 0
       THEN q
       ELSE IF userId # "none" THEN addUsage(q, t, tk, userId, n, prune, vacuum)
                               ELSE addUsage(q, t, tk, "global", n, prune, vacuum)

\* mutant: the early return for units <= 0 is missing
recordQuota_noGuard(q, t, units, userId, prune, vacuum) ==
  LET n == Max(0, units)
      tk == todayKeyPT(t)
      g == addUsage(q, t, tk, "global", n, prune, vacuum)
  IN IF userId # "none" THEN addUsage(g, t, tk, userId, n, prune, vacuum) ELSE g

\* recordQuota: nothing for units <= 0; else under "global" and, when a userId
\* is given, under the userId as well
recordQuota(q, t, units, userId, prune, vacuum) ==
  LET n == Max(0, units)
      tk == todayKeyPT(t)
  IN IF n = 0
       THEN q
       ELSE LET g == addUsage(q, t, tk, "global", n, prune, vacuum)
            IN IF userId # "none" THEN addUsage(g, t, tk, userId, n, prune, vacuum) ELSE g

\* how the upserts of a recordQuota call end: both are done, the upsert under
\* "global" throws, or the one under the userId throws
UpsertOutcomes == {"ok", "global_throws", "user_throws"}

\* the upsert outcomes a recordQuota call can meet: none when units <= 0 (no
\* statement is reached), no second upsert without a userId
UpsertOutcomesOf(units, userId) ==
  IF units <= 0 THEN {"ok"}
  ELSE IF userId = "none" THEN {"ok", "global_throws"}
  ELSE UpsertOutcomes

\* the ledger after a recordQuota call whose upserts end as upsert says: a
\* throw under "global" leaves it as it was, a throw under the userId leaves
\* the units recorded under "global" only
recordQuotaUpTo(q, t, units, userId, prune, vacuum, upsert) ==
  CASE upsert = "ok" -> recordQuota(q, t, units, userId, prune, vacuum)
    [] upsert = "global_throws" -> q
    [] upsert = "user_throws" ->
         addUsage(q, t, todayKeyPT(t), "global", Max(0, units), prune, vacuum)

\* mutant: a user without usage of their own is shown 0, not the global usage
getTodayQuota_noFallback(usage, t, userId) ==
  LET tk == todayKeyPT(t)
      globalUsed == getUsage(usage, tk, "global")
      userUsed == IF userId # "none" THEN getUsage(usage, tk, userId) ELSE 0
      used == IF userId # "none" THEN userUsed ELSE globalUsed
  IN [used |-> used, remain |-> Max(0, DAILY_BUDGET - used), budget |-> DAILY_BUDGET]

\* mutant: remain is budget - used, without the clamp at 0
getTodayQuota_noClamp(usage, t, userId) ==
  LET tk == todayKeyPT(t)
      globalUsed == getUsage(usage, tk, "global")
      userUsed == IF userId # "none" THEN getUsage(usage, tk, userId) ELSE 0
      used == IF userId # "none" /\ userUsed > 0 THEN userUsed ELSE globalUsed
  IN [used |-> used, remain |-> DAILY_BUDGET - used, budget |-> DAILY_BUDGET]

\* mutant: the global usage is shown whenever there is any
getTodayQuota_globalFirst(usage, t, userId) ==
  LET tk == todayKeyPT(t)
      globalUsed == getUsage(usage, tk, "global")
      userUsed == IF userId # "none" THEN getUsage(usage, tk, userId) ELSE 0
      used == IF globalUsed > 0 THEN globalUsed ELSE userUsed
  IN [used |-> used, remain |-> Max(0, DAILY_BUDGET - used), budget |-> DAILY_BUDGET]

getTodayQuota(usage, t, userId) ==
  LET tk == todayKeyPT(t)
      globalUsed == getUsage(usage, tk, "global")
      userUsed == IF userId # "none" THEN getUsage(usage, tk, userId) ELSE 0
      used == IF userId # "none" /\ userUsed > 0 THEN userUsed ELSE globalUsed
  IN [used |-> used, remain |-> Max(0, DAILY_BUDGET - used), budget |-> DAILY_BUDGET]

\* GET quota: without a session used = 0 and remaining = budget; with one, the
\* user's getTodayQuota
GetQuota(usage, t, userId) ==
  IF userId = "none"
    THEN [todayUsed |-> 0,
          todayRemaining |-> getTodayQuota(usage, t, "guest").budget,
          todayBudget |-> getTodayQuota(usage, t, "guest").budget]
    ELSE LET q == getTodayQuota(usage, t, userId)
         IN [todayUsed |-> q.used, todayRemaining |-> q.remain,
             todayBudget |-> q.budget]

(* ------------------- Action Log and remote provider --------------------- *)
(* performBulkAdd / performBulkRemove / performBulkMove, getActionSummary   *)
(* and the idempotency store, from sections 4.2 - 4.4 of the specification. *)

\* the operation the service performs for a route: both versions of the
\* bulk/move route call performBulkMove
ServiceType(op) == IF op = "MOVE_V1" THEN "MOVE" ELSE op

\* the Action id: the idempotency key when one is given, else a fresh id
ActionId(key, r) ==
  IF key # NoKey THEN [key |-> key, auto |-> 0] ELSE [key |-> NoKey, auto |-> r]

createAction(type, userId, id, r) ==
  [id |-> id, type |-> type, userId |-> userId, status |-> "pending",
   items |-> <<>>, by |-> r]

\* the outcomes of one target item's remote call(s): <<delete leg, insert leg>>,
\* "none" for a leg that is not attempted
Outcomes(op) ==
  CASE op = "ADD" -> {<<"none", "ok">>, <<"none", "fail">>}
    [] op = "REMOVE" -> {<<"ok", "none">>, <<"fail", "none">>}
    [] op = "MOVE" -> {<<"ok", "ok">>, <<"ok", "fail">>, <<"fail", "none">>}

\* the remote calls issued for item i with outcome o, in the order issued
CallsFor(i, o) ==
  (IF o[1] # "none" THEN <<[idx |-> i, method |-> "playlistItems.delete"]>> ELSE <<>>)
  \o (IF o[2] # "none" THEN <<[idx |-> i, method |-> "playlistItems.insert"]>> ELSE <<>>)

RECURSIVE CostOf(_)
CostOf(cs) == IF cs = <<>> THEN 0 ELSE METHOD_COST(Head(cs).method) + CostOf(Tail(cs))

\* the ActionItem appended for item i: success only when every attempted leg
\* succeeded and, for MOVE, both legs were attempted.  Section 4.4 step 3
\* classifies a call as ok or error and an insert that is ok returns the id
\* of the new playlist item (section 6); no step of the orchestration writes
\* the status skipped of section 3 or a success without its id.  Rows of
\* that kind are among the stored rows of SpecShaping.
ActionItem(op, i, o) ==
  LET ok == CASE op = "ADD" -> o[2] = "ok"
              [] op = "REMOVE" -> o[1] = "ok"
              [] op = "MOVE" -> o[1] = "ok" /\ o[2] = "ok"
  IN [videoId |-> i, type |-> op,
      status |-> IF ok THEN "success" ELSE "failed",
      sourcePlaylistItemId |-> IF op = "ADD" THEN 0 ELSE i,
      targetPlaylistItemId |-> IF o[2] = "ok" THEN i ELSE 0,
      del |-> o[1], ins |-> o[2]]

\* mutant: the loop also ends at the first item that failed
LoopDone_stopOnFailure(row, n) ==
  \/ Len(row.items) = n
  \/ (Len(row.items) > 0 /\ row.items[Len(row.items)].status = "failed")

\* the service's loop over the targets ends when every target has its item
LoopDone(row, n) == Len(row.items) = n

appendItem(row, item) == [row EXCEPT !.items = Append(@, item)]

\* mutant: "all items succeeded" is taken to hold of no items as well
finalize_emptyIsSuccess(row) ==
  LET its == row.items
      nOk == Cardinality({j \in 1..Len(its) : its[j].status = "success"})
  IN [row EXCEPT !.status = IF nOk = Len(its) THEN "success"
                            ELSE IF nOk = 0 THEN "failed"
                            ELSE "partial"]

\* finalize: success if all items succeeded, partial if mixed, failed if all
\* failed or no item was attempted
finalize(row) ==
  LET its == row.items
      nOk == Cardinality({j \in 1..Len(its) : its[j].status = "success"})
  IN [row EXCEPT !.status = IF Len(its) > 0 /\ nOk = Len(its) THEN "success"
                            ELSE IF nOk = 0 THEN "failed"
                            ELSE "partial"]

\* getActionSummary: the committed Action with this id, or NoRow
getActionSummary(log, id) ==
  IF \E a \in log : a.id = id THEN CHOOSE a \in log : a.id = id ELSE NoRow

checkIdempotencyKey(keys, key) == key \in keys

registerIdempotencyKey(keys, key) == keys \cup {key}

(* --------------------------- withTransaction ---------------------------- *)

\* The Action Log once the transaction has committed: it holds the
\* transaction's Action.  The Action's id is the idempotency key when one is
\* given, and a key names at most one Action (section 3): the Action of a
\* re-execution under a key takes the place of the Action stored under it.
CommitTx(log, row) == {a \in log : a.id # row.id} \cup {row}

\* mutant: the catch block issues COMMIT
RollbackTx_commits(log, row) == CommitTx(log, row)

\* ROLLBACK: the transaction's writes are discarded (a ROLLBACK that fails
\* as well leaves them uncommitted just the same, and the request still fails)
RollbackTx(log, row) == log

\* finally: client.release()
Release(c) == [c EXCEPT !.released = @ + 1]

\* mutant: the error is swallowed, the caller always gets a result
TxReturns_always(fnOk, commitOk) == TRUE

\* withTransaction returns fn's result only when fn returned and COMMIT
\* succeeded; otherwise it rolls back and rethrows
TxReturns(fnOk, commitOk) == fnOk /\ commitOk

(* ---------------------------- route handlers ---------------------------- *)

Truthy(id) == id # 0

\* mutant: the filter looks at the type only
CreatedKeep_anyStatus(it) == it.type = "ADD"

CreatedKeep(it) ==
  it.type = "ADD" /\ it.status = "success" /\ Truthy(it.targetPlaylistItemId)

\* mutant: the status and the target id are not looked at
MovedKeep_noStatus(it) ==
  it.type = "MOVE" /\ Truthy(it.sourcePlaylistItemId)

MovedKeep(it) ==
  /\ it.type = "MOVE"
  /\ it.status = "success"
  /\ Truthy(it.sourcePlaylistItemId)
  /\ Truthy(it.targetPlaylistItemId)

\* buildCreated: {playlistItemId, videoId} of the ADD items that succeeded
buildCreated(its) ==
  LET sel == SelectSeq(its, CreatedKeep)
  IN [j \in 1..Len(sel) |-> [playlistItemId |-> sel[j].targetPlaylistItemId,
                             from |-> 0, videoId |-> sel[j].videoId]]

\* buildMoved: {from, to, videoId} of the MOVE items that succeeded
buildMoved(its) ==
  LET sel == SelectSeq(its, MovedKeep)
  IN [j \in 1..Len(sel) |-> [playlistItemId |-> sel[j].targetPlaylistItemId,
                             from |-> sel[j].sourcePlaylistItemId,
                             videoId |-> sel[j].videoId]]

\* the created / moved list a route puts in its response (bulk/remove and the
\* earlier bulk/move: none)
ResponseList(op, its) ==
  CASE op = "ADD" -> buildCreated(its)
    [] op = "MOVE" -> buildMoved(its)
    [] op = "REMOVE" -> <<>>
    [] op = "MOVE_V1" -> <<>>

\* mutant: the owner of the stored Action is not compared with the caller
ReplayHit_anyOwner(log, seen, key, userId) ==
  /\ key # NoKey
  /\ seen
  /\ \E a \in log : a.id = [key |-> key, auto |-> 0]

\* the idempotent hit: the key is given and checkIdempotencyKey answered true
\* (seen), and the stored Action exists and is owned by the caller
ReplayHit(log, seen, key, userId) ==
  /\ key # NoKey
  /\ seen
  /\ LET summary == getActionSummary(log, ActionId(key, 0))
     IN summary # NoRow /\ summary.userId = userId

\* estimatedQuota of a replayed response
ReplayEstimate(op, n, list) ==
  CASE op = "ADD" -> Len(list) * 50
    [] op = "MOVE" -> Len(list) * 100
    [] op = "REMOVE" -> n * 50
    [] op = "MOVE_V1" -> n * 100

ReplayResponse(log, op, key, n) ==
  LET summary == getActionSummary(log, ActionId(key, 0))
      list == ResponseList(op, summary.items)
  IN [kind |-> "ok", http |-> 200, code |-> "ok", idempotent |-> TRUE,
      action |-> summary, list |-> list,
      estimatedQuota |-> ReplayEstimate(op, n, list)]

\* mutant: a result that is not a full success is answered as an error
OkResponse_successOnly(op, row, c) ==
  IF row.status = "success"
    THEN [kind |-> "ok", http |-> 200, code |-> "ok", idempotent |-> FALSE,
          action |-> row, list |-> ResponseList(op, row.items), estimatedQuota |-> c]
    ELSE [kind |-> "error", http |-> 500, code |-> "internal_error",
          idempotent |-> FALSE, action |-> NoRow, list |-> <<>>, estimatedQuota |-> 0]

\* mutant: an executed result is flagged idempotent: true
OkResponse_idempotentTrue(op, row, c) ==
  [kind |-> "ok", http |-> 200, code |-> "ok", idempotent |-> TRUE,
   action |-> row, list |-> ResponseList(op, row.items), estimatedQuota |-> c]

\* jsonOk({...result, created | moved, idempotent: false})
OkResponse(op, row, c) ==
  [kind |-> "ok", http |-> 200, code |-> "ok", idempotent |-> FALSE,
   action |-> row, list |-> ResponseList(op, row.items), estimatedQuota |-> c]

ErrorResponse(http, code) ==
  [kind |-> "error", http |-> http, code |-> code, idempotent |-> FALSE,
   action |-> NoRow, list |-> <<>>, estimatedQuota |-> 0]

\* mutant: the check claims the key for the request
KeysAfterCheck_claims(keys, key) == IF key # NoKey THEN keys \cup {key} ELSE keys

\* the idempotency store after the route's check: checkIdempotencyKey only
\* reads, nothing is claimed for the request
KeysAfterCheck(keys, key) == keys

\* mutant: the route never registers the key
RouteRegister_never(keys, key) == keys

\* if (idempotencyKey) registerIdempotencyKey(idempotencyKey)
RouteRegister(keys, key) ==
  IF key # NoKey THEN registerIdempotencyKey(keys, key) ELSE keys

\* bulk/add and bulk/move open the transaction in the route and call the
\* service inside it; bulk/remove and the earlier bulk/move leave the
\* transaction to the service call
RouteOwnsTx(op) == op \in {"ADD", "MOVE"}

\* bulk/add and bulk/move await checkIdempotencyKey, getActionSummary and
\* registerIdempotencyKey; bulk/remove and the earlier bulk/move call them
\* without await, so check and summary are one step there and so are the
\* registration and the answer
RouteAwaitsStore(op) == op \in {"ADD", "MOVE"}

(* ------------------------------ behaviour ------------------------------- *)

\* no request has arrived
InitRequests ==
  /\ pc = [r \in Requests |-> "idle"]
  /\ req = [r \in Requests |-> NoReq]
  /\ txAction = [r \in Requests |-> NoRow]
  /\ txState = [r \in Requests |-> "none"]
  /\ calls = [r \in Requests |-> <<>>]
  /\ cost = [r \in Requests |-> 0]
  /\ charged = [r \in Requests |-> 0]
  /\ resp = [r \in Requests |-> NoResp]
  /\ conn = [r \in Requests |-> NoConn]

\* the quota ledger is empty and no sweep has run
InitLedger ==
  /\ quota_usage = [k \in {} |-> 0]
  /\ quota_meta = [k \in {"last_prune_pt", "last_vacuum_pt"} |-> NoMeta]
  /\ lastMaintenanceMs = 0
  /\ now = START_TIME
  /\ ledgerLog = <<>>

Init ==
  /\ InitRequests
  /\ InitLedger
  /\ actions = {}
  /\ idemKeys = {}

\* requests are numbered in their order of arrival
NextToArrive(r) == pc[r] = "idle" /\ \A q \in Requests : q < r => pc[q] # "idle"

\* the requests that had returned when a request arrives
Returned == {q \in Requests : pc[q] = "done"}

\* the answers of the checks made before anything is executed: malformed
\* payload, no session, no remote tokens (bulk/move: "unknown" when the client
\* lookup throws something else than NO_TOKENS; its earlier version: 500
\* "internal_error")
Rejections ==
  {<<400, "invalid_request">>, <<401, "unauthorized">>, <<400, "no_tokens">>,
   <<400, "unknown">>}

EarlierRejections ==
  {<<400, "invalid_request">>, <<401, "unauthorized">>, <<400, "no_tokens">>,
   <<500, "internal_error">>}

\* mutant: the session and token checks come after the service call and the
\* registration of the key
Reject_afterExecution(r) ==
  /\ NextToArrive(r)
  /\ \E e \in Rejections, k \in Keys :
       /\ resp' = [resp EXCEPT ![r] = ErrorResponse(e[1], e[2])]
       /\ idemKeys' = registerIdempotencyKey(idemKeys, k)
       /\ calls' = [calls EXCEPT ![r] = CallsFor(1, <<"none", "ok">>)]
  /\ pc' = [pc EXCEPT ![r] = "done"]
  /\ req' = [req EXCEPT ![r] = [NoReq EXCEPT !.prior = Returned]]
  /\ UNCHANGED <<txAction, txState, cost, charged, actions,
                 quota_usage, quota_meta, lastMaintenanceMs, now, ledgerLog, conn>>

\* A request is turned away before anything is executed: malformed payload,
\* no session, or no remote tokens.
Reject(r) ==
  /\ NextToArrive(r)
  /\ \E e \in Rejections :
       resp' = [resp EXCEPT ![r] = ErrorResponse(e[1], e[2])]
  /\ pc' = [pc EXCEPT ![r] = "done"]
  /\ req' = [req EXCEPT ![r] = [NoReq EXCEPT !.prior = Returned]]
  /\ UNCHANGED <<txAction, txState, calls, cost, charged, actions, idemKeys,
                 quota_usage, quota_meta, lastMaintenanceMs, now, ledgerLog, conn>>

\* POST: a valid, authorised request of one of the routes ops reaches the
\* idempotency check.  checkIdempotencyKey answers; a route that does not
\* await reads the summary in the same step and, on a hit, returns it.
SubmitTo(r, ops, sizes, keys) ==
  /\ NextToArrive(r)
  /\ \E op \in ops, u \in Users, k \in keys, n \in sizes :
       LET seen == checkIdempotencyKey(idemKeys, k)
       IN /\ req' = [req EXCEPT ![r] = [NoReq EXCEPT
                                         !.op = op, !.userId = u, !.key = k, !.n = n,
                                         !.prior = Returned, !.seen = seen]]
          /\ IF RouteAwaitsStore(op)
               THEN /\ pc' = [pc EXCEPT ![r] = IF k # NoKey /\ seen THEN "summary"
                                                                    ELSE "connect"]
                    /\ UNCHANGED resp
               ELSE IF ReplayHit(actions, seen, k, u)
                 THEN /\ resp' = [resp EXCEPT ![r] = ReplayResponse(actions, op, k, n)]
                      /\ pc' = [pc EXCEPT ![r] = "done"]
                 ELSE /\ pc' = [pc EXCEPT ![r] = "connect"]
                      /\ UNCHANGED resp
          /\ idemKeys' = KeysAfterCheck(idemKeys, k)
  /\ UNCHANGED <<txAction, txState, calls, cost, charged, actions,
                 quota_usage, quota_meta, lastMaintenanceMs, now, ledgerLog, conn>>

\* The payload is parsed from the request alone.  The first request to arrive
\* names up to MaxItems targets, a request that arrives after it up to
\* MaxLaterItems.
Submit(r) ==
  SubmitTo(r, Ops, 1..(IF r = 1 THEN MaxItems ELSE MaxLaterItems), Keys \cup {NoKey})

\* bulk/add, bulk/move: getActionSummary answers.  A stored Action owned by
\* the caller is returned as the replay; else the request goes on to execute.
Summary(r) ==
  /\ pc[r] = "summary"
  /\ IF ReplayHit(actions, req[r].seen, req[r].key, req[r].userId)
       THEN /\ resp' = [resp EXCEPT ![r] =
                          ReplayResponse(actions, req[r].op, req[r].key, req[r].n)]
            /\ pc' = [pc EXCEPT ![r] = "done"]
       ELSE /\ pc' = [pc EXCEPT ![r] = "connect"]
            /\ UNCHANGED resp
  /\ UNCHANGED <<req, txAction, txState, calls, cost, charged, actions, idemKeys,
                 quota_usage, quota_meta, lastMaintenanceMs, now, ledgerLog, conn>>

\* the answer of a handler that throws
HandlerThrows == ErrorResponse(500, "internal_error")

\* withTransaction: pool.connect().  When it rejects no connection is held,
\* no transaction was opened and the handler throws.
Connect(r) ==
  /\ pc[r] = "connect"
  /\ \E connectOk \in BOOLEAN :
       IF connectOk
         THEN /\ conn' = [conn EXCEPT ![r].acquired = @ + 1]
              /\ pc' = [pc EXCEPT ![r] = "begin"]
              /\ UNCHANGED resp
         ELSE /\ resp' = [resp EXCEPT ![r] = HandlerThrows]
              /\ pc' = [pc EXCEPT ![r] = "done"]
              /\ UNCHANGED conn
  /\ UNCHANGED <<req, txAction, txState, calls, cost, charged, actions, idemKeys,
                 quota_usage, quota_meta, lastMaintenanceMs, now, ledgerLog>>

\* withTransaction: BEGIN, then the unit of work starts and the service
\* creates the Action.  When BEGIN fails no transaction is open; the catch
\* block's ROLLBACK has nothing to undo, the connection is released and the
\* handler throws.
Begin(r) ==
  /\ pc[r] = "begin"
  /\ \E beginOk \in BOOLEAN :
       IF beginOk
         THEN /\ txAction' = [txAction EXCEPT ![r] =
                                createAction(ServiceType(req[r].op), req[r].userId,
                                             ActionId(req[r].key, r), r)]
              /\ txState' = [txState EXCEPT ![r] = "open"]
              /\ pc' = [pc EXCEPT ![r] = "exec"]
              /\ UNCHANGED <<resp, conn>>
         ELSE /\ resp' = [resp EXCEPT ![r] = HandlerThrows]
              /\ pc' = [pc EXCEPT ![r] = "done"]
              /\ conn' = [conn EXCEPT ![r] = Release(@)]
              /\ UNCHANGED <<txAction, txState>>
  /\ UNCHANGED <<req, calls, cost, charged, actions, idemKeys,
                 quota_usage, quota_meta, lastMaintenanceMs, now, ledgerLog>>

\* The next target item: its remote call(s), one after the other, then its
\* ActionItem, whatever the outcome.
ProcessItem(r) ==
  /\ pc[r] = "exec"
  /\ ~LoopDone(txAction[r], req[r].n)
  /\ \E o \in Outcomes(ServiceType(req[r].op)) :
       LET i == Len(txAction[r].items) + 1
           issued == CallsFor(i, o)
       IN /\ calls' = [calls EXCEPT ![r] = @ \o issued]
          /\ cost' = [cost EXCEPT ![r] = @ + CostOf(issued)]
          /\ txAction' = [txAction EXCEPT ![r] =
                            appendItem(@, ActionItem(ServiceType(req[r].op), i, o))]
  /\ UNCHANGED <<pc, req, txState, charged, resp, actions, idemKeys,
                 quota_usage, quota_meta, lastMaintenanceMs, now, ledgerLog, conn>>

\* A storage error inside the unit of work: withTransaction rolls back,
\* releases the connection and rethrows, the request fails.
ServiceThrows(r) ==
  /\ pc[r] = "exec"
  /\ actions' = RollbackTx(actions, txAction[r])
  /\ txState' = [txState EXCEPT ![r] = "rolledback"]
  /\ conn' = [conn EXCEPT ![r] = Release(@)]
  /\ IF TxReturns(FALSE, TRUE)
       THEN /\ pc' = [pc EXCEPT ![r] = "register"]
            /\ UNCHANGED <<resp, txAction, cost>>
       ELSE /\ pc' = [pc EXCEPT ![r] = "done"]
            /\ resp' = [resp EXCEPT ![r] = HandlerThrows]
            /\ txAction' = [txAction EXCEPT ![r] = NoRow]
            /\ cost' = [cost EXCEPT ![r] = 0]
  /\ UNCHANGED <<req, calls, charged, idemKeys,
                 quota_usage, quota_meta, lastMaintenanceMs, now, ledgerLog>>

\* The end of performBulkAdd / Move / Remove's loop: the Action is finalized.
\* bulk/add and bulk/move call the service inside the function they hand to
\* withTransaction: what the service writes to the ledger it writes before
\* the function returns, that is before COMMIT, and no statement of these
\* handlers writes to the ledger afterwards.  bulk/remove and the earlier
\* bulk/move leave the transaction to the service; nothing is written here.
ServiceEnd(r) ==
  /\ pc[r] = "exec"
  /\ LoopDone(txAction[r], req[r].n)
  /\ txAction' = [txAction EXCEPT ![r] = finalize(@)]
  /\ pc' = [pc EXCEPT ![r] = "commit"]
  /\ IF RouteOwnsTx(req[r].op)
       THEN /\ \E o \in RecordOutcomes(QStore, now, cost[r]) :
                 LET q == recordQuota(QStore, now, cost[r], req[r].userId, o[1], o[2])
                 IN /\ quota_usage' = q.usage
                    /\ quota_meta' = q.meta
                    /\ lastMaintenanceMs' = q.last
            /\ charged' = [charged EXCEPT ![r] = cost[r]]
       ELSE UNCHANGED <<charged, quota_usage, quota_meta, lastMaintenanceMs>>
  /\ UNCHANGED <<req, txState, calls, cost, resp, actions, idemKeys, now, ledgerLog, conn>>

\* COMMIT.  When it fails the transaction is rolled back and the error is
\* rethrown to the caller.  The connection is released in either case.  The
\* routes that own the transaction go on to register the key; the service
\* that owns it goes on to its ledger write.
Commit(r) ==
  /\ pc[r] = "commit"
  /\ conn' = [conn EXCEPT ![r] = Release(@)]
  /\ \E commitOk \in BOOLEAN :
       /\ actions' = IF commitOk THEN CommitTx(actions, txAction[r])
                                 ELSE RollbackTx(actions, txAction[r])
       /\ txState' = [txState EXCEPT ![r] = IF commitOk THEN "committed"
                                                        ELSE "rolledback"]
       /\ IF TxReturns(TRUE, commitOk)
            THEN /\ pc' = [pc EXCEPT ![r] = IF RouteOwnsTx(req[r].op)
                                               THEN "register" ELSE "ledger"]
                 /\ UNCHANGED <<resp, txAction, cost>>
            ELSE /\ pc' = [pc EXCEPT ![r] = "done"]
                 /\ resp' = [resp EXCEPT ![r] = HandlerThrows]
                 /\ txAction' = [txAction EXCEPT ![r] = NoRow]
                 /\ cost' = [cost EXCEPT ![r] = 0]
  /\ UNCHANGED <<req, calls, charged, idemKeys,
                 quota_usage, quota_meta, lastMaintenanceMs, now, ledgerLog>>

\* bulk/remove and the earlier bulk/move leave the transaction to the
\* service: after its commit the service records the cost accumulated over
\* the calls issued, under "global" and under the userId (section 4.4, step 4
\* and "quota-recording timing"), and returns to the route.
RecordAfterCommit(r) ==
  /\ pc[r] = "ledger"
  /\ \E o \in RecordOutcomes(QStore, now, cost[r]) :
       LET q == recordQuota(QStore, now, cost[r], req[r].userId, o[1], o[2])
       IN /\ quota_usage' = q.usage
          /\ quota_meta' = q.meta
          /\ lastMaintenanceMs' = q.last
  /\ charged' = [charged EXCEPT ![r] = cost[r]]
  /\ pc' = [pc EXCEPT ![r] = "register"]
  /\ UNCHANGED <<req, txAction, txState, calls, cost, resp, actions, idemKeys, now,
                 ledgerLog, conn>>

\* After the service call has returned: the key is registered.  bulk/add and
\* bulk/move await the registration and answer afterwards; bulk/remove and the
\* earlier bulk/move do not await it and answer in the same step.
Register(r) ==
  /\ pc[r] = "register"
  /\ idemKeys' = RouteRegister(idemKeys, req[r].key)
  /\ IF RouteAwaitsStore(req[r].op) /\ req[r].key # NoKey
       THEN /\ pc' = [pc EXCEPT ![r] = "respond"]
            /\ UNCHANGED resp
       ELSE /\ resp' = [resp EXCEPT ![r] = OkResponse(req[r].op, txAction[r], cost[r])]
            /\ pc' = [pc EXCEPT ![r] = "done"]
  /\ UNCHANGED <<req, txAction, txState, calls, cost, charged, actions,
                 quota_usage, quota_meta, lastMaintenanceMs, now, ledgerLog, conn>>

\* bulk/add, bulk/move: the awaited registration has resolved, the response is
\* shaped and returned.
Respond(r) ==
  /\ pc[r] = "respond"
  /\ resp' = [resp EXCEPT ![r] = OkResponse(req[r].op, txAction[r], cost[r])]
  /\ pc' = [pc EXCEPT ![r] = "done"]
  /\ UNCHANGED <<req, txAction, txState, calls, cost, charged, actions, idemKeys,
                 quota_usage, quota_meta, lastMaintenanceMs, now, ledgerLog, conn>>

Next ==
  \E r \in Requests :
    \/ Reject(r)
    \/ Submit(r)
    \/ Summary(r)
    \/ Connect(r)
    \/ Begin(r)
    \/ Respond(r)
    \/ ProcessItem(r)
    \/ ServiceThrows(r)
    \/ ServiceEnd(r)
    \/ Commit(r)
    \/ RecordAfterCommit(r)
    \/ Register(r)

Spec == Init /\ [][Next]_vars

(* ------------------- the earlier version of bulk/move ------------------- *)

\* A request to the earlier bulk/move is turned away before anything is
\* executed.
RejectEarlier(r) ==
  /\ NextToArrive(r)
  /\ \E e \in EarlierRejections :
       resp' = [resp EXCEPT ![r] = ErrorResponse(e[1], e[2])]
  /\ pc' = [pc EXCEPT ![r] = "done"]
  /\ req' = [req EXCEPT ![r] = [NoReq EXCEPT !.prior = Returned]]
  /\ UNCHANGED <<txAction, txState, calls, cost, charged, actions, idemKeys,
                 quota_usage, quota_meta, lastMaintenanceMs, now, ledgerLog, conn>>

SubmitEarlier(r) == SubmitTo(r, EarlierOps, 1..MaxItems, Keys \cup {NoKey})

\* the requests of a behaviour all go to the earlier bulk/move, which leaves
\* the transaction and the ledger write to performBulkMove
NextEarlier ==
  \E r \in Requests :
    \/ RejectEarlier(r)
    \/ SubmitEarlier(r)
    \/ Connect(r)
    \/ Begin(r)
    \/ ProcessItem(r)
    \/ ServiceThrows(r)
    \/ ServiceEnd(r)
    \/ Commit(r)
    \/ RecordAfterCommit(r)
    \/ Register(r)

SpecEarlier == Init /\ [][NextEarlier]_vars

(* ----------------------------- resubmissions ---------------------------- *)

\* Every request carries an idempotency key and names up to MaxItems targets,
\* whatever its place in the order of arrival.
SubmitKeyed(r) == SubmitTo(r, Ops, 1..MaxItems, Keys)

NextResubmit ==
  \E r \in Requests :
    \/ Reject(r)
    \/ SubmitKeyed(r)
    \/ Summary(r)
    \/ Connect(r)
    \/ Begin(r)
    \/ Respond(r)
    \/ ProcessItem(r)
    \/ ServiceThrows(r)
    \/ ServiceEnd(r)
    \/ Commit(r)
    \/ RecordAfterCommit(r)
    \/ Register(r)

SpecResubmit == Init /\ [][NextResubmit]_vars

(* ------------------------------ scenario A ------------------------------ *)

\* Scenario A of section 8: the last request of a behaviour is any request of
\* Spec or an ADD of 3 videos without an idempotency key; the requests before
\* it name one target and may still be in flight.
SubmitSingle(r) == SubmitTo(r, Ops, {1}, Keys \cup {NoKey})

SubmitBefore(r) ==
  /\ r < NReq
  /\ SubmitSingle(r)

SubmitLast(r) ==
  /\ r = NReq
  /\ SubmitTo(r, Ops, 1..MaxItems, Keys \cup {NoKey})

SubmitScenarioA(r) ==
  /\ r = NReq
  /\ SubmitTo(r, {"ADD"}, {ScenarioItems}, {NoKey})

NextScenarioA ==
  \E r \in Requests :
    \/ Reject(r)
    \/ SubmitBefore(r)
    \/ SubmitLast(r)
    \/ SubmitScenarioA(r)
    \/ Summary(r)
    \/ Connect(r)
    \/ Begin(r)
    \/ Respond(r)
    \/ ProcessItem(r)
    \/ ServiceThrows(r)
    \/ ServiceEnd(r)
    \/ Commit(r)
    \/ RecordAfterCommit(r)
    \/ Register(r)

SpecScenarioA == Init /\ [][NextScenarioA]_vars

(* ------------------ a registered key without its Action ----------------- *)

\* The idempotency store holds a key whose Action is not in the Action Log:
\* the two are separate stores, and the routes provide for the case (a
\* summary that is null, route.ts 492-493, 615-616).
InitStaleKey ==
  /\ InitRequests
  /\ InitLedger
  /\ actions = {}
  /\ idemKeys = Keys

SpecStaleKey == InitStaleKey /\ [][Next]_vars

(* ------------------- failures of the post-commit steps ------------------ *)

\* registerIdempotencyKey fails after the transaction has committed.  bulk/add
\* and bulk/move await it outside any try block, so the handler fails.
\* bulk/remove does not await it: a synchronous throw fails the handler, a
\* rejected promise is observed by nobody and the committed result is returned.
RegisterFails(r) ==
  /\ pc[r] = "register"
  /\ req[r].key # NoKey
  /\ \E unobserved \in IF RouteAwaitsStore(req[r].op) THEN {FALSE} ELSE BOOLEAN :
       resp' = [resp EXCEPT ![r] =
                  IF unobserved THEN OkResponse(req[r].op, txAction[r], cost[r])
                                ELSE HandlerThrows]
  /\ pc' = [pc EXCEPT ![r] = "done"]
  /\ UNCHANGED <<req, txAction, txState, calls, cost, charged, actions, idemKeys,
                 quota_usage, quota_meta, lastMaintenanceMs, now, ledgerLog, conn>>

\* bulk/remove leaves the transaction and the ledger write to
\* performBulkRemove, which the route calls outside any try block: a ledger
\* write that throws after the service's commit fails the handler, the route
\* neither registers the key nor answers ok.
LedgerWriteFails(r) ==
  /\ pc[r] = "ledger"
  /\ req[r].op = "REMOVE"
  /\ resp' = [resp EXCEPT ![r] = ErrorResponse(500, "internal_error")]
  /\ pc' = [pc EXCEPT ![r] = "done"]
  /\ UNCHANGED <<req, txAction, txState, calls, cost, charged, actions, idemKeys,
                 quota_usage, quota_meta, lastMaintenanceMs, now, ledgerLog, conn>>

\* the post-commit steps do not depend on the size of the payload: the
\* requests of these behaviours name one target
NextPostCommit ==
  \E r \in Requests :
    \/ Reject(r)
    \/ SubmitSingle(r)
    \/ Summary(r)
    \/ Connect(r)
    \/ Begin(r)
    \/ Respond(r)
    \/ ProcessItem(r)
    \/ ServiceThrows(r)
    \/ ServiceEnd(r)
    \/ Commit(r)
    \/ RecordAfterCommit(r)
    \/ Register(r)
    \/ RegisterFails(r)
    \/ LedgerWriteFails(r)

SpecPostCommit == Init /\ [][NextPostCommit]_vars

(* ------------------------- the ledger on its own ------------------------ *)

\* number of ledger calls and clock steps in one behaviour
MaxCalls == 3

\* who calls recordQuota / getTodayQuota: a user, no userId, or a session
\* whose userId is the string "global" (the routes read the userId from the
\* session cookie's JSON as it is)
Callers == Users \cup {"none", "global"}
\* the units passed to recordQuota
UnitChoices == {-50, 0, 50, 6000}
\* the units a caller records: the session whose userId is "global" records
\* the cost of one insert
UnitChoicesOf(u) == IF u = "global" THEN {50} ELSE UnitChoices
\* how far the clock moves in one step: 2 s, 1 h, 6, 7, 35 and 36 days
ClockSteps ==
  {2, 3600, 6 * SECONDS_PER_DAY, 7 * SECONDS_PER_DAY, 35 * SECONDS_PER_DAY,
   36 * SECONDS_PER_DAY}

\* the scopes and date keys addUsage is called with directly: today's key or
\* yesterday's
Scopes == Users \cup {"global"}
DeltaChoices == {-50, 50}
DaysBack == {0, 1}

\* an entry of ledgerLog
LogEntry(fn, units, userId, dateKey, scope, swept, pruned, vacuumed) ==
  [fn |-> fn, units |-> units, userId |-> userId, dateKey |-> dateKey,
   scope |-> scope, at |-> now, swept |-> swept, pruned |-> pruned,
   vacuumed |-> vacuumed]

\* recordQuota(method, units, userId)
RecordUsage ==
  /\ Len(ledgerLog) < MaxCalls
  /\ \E u \in Callers : \E units \in UnitChoicesOf(u) :
     \E o \in RecordOutcomes(QStore, now, units) :
       LET prune == o[1]
           vacuum == o[2]
           q == recordQuota(QStore, now, units, u, prune, vacuum)
           swept == units > 0 /\ ~Throttled(QStore, now)
       IN /\ quota_usage' = q.usage
          /\ quota_meta' = q.meta
          /\ lastMaintenanceMs' = q.last
          /\ ledgerLog' = Append(ledgerLog,
               LogEntry("recordQuota", units, u, todayKeyPT(now), "none", swept,
                        swept /\ prune # "delete_throws",
                        swept /\ Vacuums(QStore, now, DEFAULT_VACUUM_INTERVAL_DAYS,
                                         vacuum)))
  /\ UNCHANGED <<pc, req, txAction, txState, calls, cost, charged, resp, actions,
                 idemKeys, now, conn>>

\* addUsage(dateKey, scope, delta), called directly
AddUsage ==
  /\ Len(ledgerLog) < MaxCalls
  /\ \E back \in DaysBack, sc \in Scopes, delta \in DeltaChoices,
        o \in SweepOutcomes(QStore, now) :
       LET prune == o[1]
           vacuum == o[2]
           dateKey == todayKeyPT(now) - back
           q == addUsage(QStore, now, dateKey, sc, delta, prune, vacuum)
           swept == ~Throttled(QStore, now)
       IN /\ quota_usage' = q.usage
          /\ quota_meta' = q.meta
          /\ lastMaintenanceMs' = q.last
          /\ ledgerLog' = Append(ledgerLog,
               LogEntry("addUsage", delta, "none", dateKey, sc, swept,
                        swept /\ prune # "delete_throws",
                        swept /\ Vacuums(QStore, now, DEFAULT_VACUUM_INTERVAL_DAYS,
                                         vacuum)))
  /\ UNCHANGED <<pc, req, txAction, txState, calls, cost, charged, resp, actions,
                 idemKeys, now, conn>>

\* maintenance(): prune and compaction check, not throttled; an error of
\* pruneOldUsage is thrown on and the compaction check is then not reached; an
\* error inside maybeVacuum's try block is swallowed
Maintenance ==
  /\ Len(ledgerLog) < MaxCalls
  /\ \E o \in MaintenanceOutcomes(QStore, now) :
       LET prune == o[1]
           vacuum == o[2]
           pruned == pruneOldUsage(QStore, now, DEFAULT_RETENTION_DAYS, prune)
           q == IF prune = "ok"
                  THEN maybeVacuum(pruned, now, DEFAULT_VACUUM_INTERVAL_DAYS, vacuum)
                  ELSE pruned
       IN /\ quota_usage' = q.usage
          /\ quota_meta' = q.meta
          /\ lastMaintenanceMs' = q.last
          /\ ledgerLog' = Append(ledgerLog,
               LogEntry("maintenance", 0, "none", todayKeyPT(now), "none", TRUE,
                        prune # "delete_throws",
                        prune = "ok" /\ Vacuums(QStore, now,
                                                DEFAULT_VACUUM_INTERVAL_DAYS, vacuum)))
  /\ UNCHANGED <<pc, req, txAction, txState, calls, cost, charged, resp, actions,
                 idemKeys, now, conn>>

\* the wall clock moves on
Tick ==
  /\ Len(ledgerLog) < MaxCalls
  /\ \E d \in ClockSteps : now' = now + d
  /\ ledgerLog' = Append(ledgerLog,
       LogEntry("tick", 0, "none", todayKeyPT(now), "none", FALSE, FALSE, FALSE))
  /\ UNCHANGED <<pc, req, txAction, txState, calls, cost, charged, resp, actions,
                 idemKeys, quota_usage, quota_meta, lastMaintenanceMs, conn>>

NextLedger == RecordUsage \/ AddUsage \/ Maintenance \/ Tick

SpecLedger == Init /\ [][NextLedger]_vars

(* --------------------------- finalize on its own ------------------------ *)

\* largest number of targets of the Action that is finalized
MaxFinalizeItems == 3

\* the items appended for the first m targets, with the outcomes os
ItemsOf(op, m, os) == [i \in 1..m |-> ActionItem(op, i, os[i])]

\* a pending Action of n requested targets of which the first m were attempted
InitFinalize ==
  /\ \E op \in Ops, u \in Users, n \in 1..MaxFinalizeItems :
       \E m \in 0..n : \E os \in [1..m -> Outcomes(op)] :
         /\ req = [r \in Requests |->
                     IF r = 1 THEN [NoReq EXCEPT !.op = op, !.userId = u, !.n = n]
                              ELSE NoReq]
         /\ txAction = [r \in Requests |->
                          IF r = 1 THEN [createAction(op, u, ActionId(NoKey, 1), 1)
                                           EXCEPT !.items = ItemsOf(op, m, os)]
                                   ELSE NoRow]
  /\ pc = [r \in Requests |-> IF r = 1 THEN "exec" ELSE "idle"]
  /\ txState = [r \in Requests |-> IF r = 1 THEN "open" ELSE "none"]
  /\ calls = [r \in Requests |-> <<>>]
  /\ cost = [r \in Requests |-> 0]
  /\ charged = [r \in Requests |-> 0]
  /\ resp = [r \in Requests |-> NoResp]
  /\ actions = {}
  /\ idemKeys = {}
  /\ quota_usage = [k \in {} |-> 0]
  /\ quota_meta = [k \in {"last_prune_pt", "last_vacuum_pt"} |-> NoMeta]
  /\ lastMaintenanceMs = 0
  /\ now = START_TIME
  /\ ledgerLog = <<>>
  /\ conn = [r \in Requests |-> NoConn]

\* finalize(actionId)
FinalizeStep ==
  /\ pc[1] = "exec"
  /\ txAction' = [txAction EXCEPT ![1] = finalize(@)]
  /\ pc' = [pc EXCEPT ![1] = "commit"]
  /\ UNCHANGED <<req, txState, calls, cost, charged, resp, actions, idemKeys,
                 quota_usage, quota_meta, lastMaintenanceMs, now, ledgerLog, conn>>

NextFinalize == FinalizeStep

SpecFinalize == InitFinalize /\ [][NextFinalize]_vars

(* ---------------------- response shaping on its own -------------------- *)
(* buildCreated and buildMoved, applied by bulk/add and bulk/move to the    *)
(* items of the result they return and of the summary they replay.          *)

\* largest number of items of the Action whose response is shaped
MaxShapedItems == 2

\* the status of an ActionItem (section 3)
ItemStatuses == {"success", "failed", "skipped"}

\* the ActionItem rows of target i that the Action Log can hand to a route:
\* of any type and status, with and without sourcePlaylistItemId and
\* targetPlaylistItemId (both optional, section 3)
ItemRows(i) ==
  {[videoId |-> i, type |-> t, status |-> st,
    sourcePlaylistItemId |-> src, targetPlaylistItemId |-> tgt] :
     t \in Ops, st \in ItemStatuses, src \in {0, i}, tgt \in {0, i}}

\* the item lists of an Action of m targets
ItemLists(m) ==
  {its \in [1..m -> UNION {ItemRows(i) : i \in 1..m}] :
     \A i \in 1..m : its[i] \in ItemRows(i)}

\* A finalized Action of any items is stored under key k1 for its user; the
\* request of that user either has executed it and is about to shape its
\* answer, or has found the key registered and is about to read the summary.
InitShaping ==
  /\ \E op \in {"ADD", "MOVE"}, u \in Users, m \in 0..MaxShapedItems,
        at \in {"respond", "summary"} :
       \E its \in ItemLists(m) :
         LET row == finalize([createAction(op, u, ActionId("k1", 0), 1)
                                EXCEPT !.items = its])
         IN /\ req = [r \in Requests |->
                        IF r = 1 THEN [NoReq EXCEPT !.op = op, !.userId = u,
                                                    !.key = "k1", !.n = m,
                                                    !.seen = at = "summary"]
                                 ELSE NoReq]
            /\ txAction = [r \in Requests |->
                             IF r = 1 /\ at = "respond" THEN row ELSE NoRow]
            /\ txState = [r \in Requests |->
                            IF r = 1 /\ at = "respond" THEN "committed" ELSE "none"]
            /\ pc = [r \in Requests |-> IF r = 1 THEN at ELSE "idle"]
            /\ actions = {row}
  /\ calls = [r \in Requests |-> <<>>]
  /\ cost = [r \in Requests |-> 0]
  /\ charged = [r \in Requests |-> 0]
  /\ resp = [r \in Requests |-> NoResp]
  /\ conn = [r \in Requests |-> NoConn]
  /\ idemKeys = {"k1"}
  /\ InitLedger

\* the route shapes the result of its execution, or the stored summary
NextShaping == Respond(1) \/ Summary(1)

SpecShaping == InitShaping /\ [][NextShaping]_vars

(* ------------------------- the listing routes --------------------------- *)
(* GET playlist-items (one page, or every page) and GET playlists.          *)

\* largest number of pages a listing has from where it starts
MaxPages == 3

\* the requests that are listings
ListRequests == {1}

ListOps == {"LIST_ITEMS", "LIST_PLAYLISTS"}

\* the reasons the provider gives for a failed call
Reasons ==
  {"quotaExceeded", "rateLimitExceeded", "insufficientPermissions", "forbidden",
   "youtubeSignupRequired", "playlistNotFound", "notFound", "authError",
   "invalidCredentials", "backendError"}
\* the error carries no reason at that place
NoReason == "none"

\* the errors thrown by a list call: the reason is in the response body, in
\* the error's own list, in both, or in neither
Errors ==
  {[responseReason |-> x, errorsReason |-> NoReason] : x \in Reasons \cup {NoReason}}
    \cup {[responseReason |-> NoReason, errorsReason |-> x] : x \in Reasons}
    \cup {[responseReason |-> "notFound", errorsReason |-> "quotaExceeded"]}

\* err?.response?.data?.error?.errors?.[0]?.reason || err?.errors?.[0]?.reason
ReasonOf(err) ==
  IF err.responseReason # NoReason THEN err.responseReason ELSE err.errorsReason

mapYouTubeErrorToHttp(err) ==
  LET reason == ReasonOf(err)
  IN IF reason = "quotaExceeded" \/ reason = "rateLimitExceeded" THEN 429
     ELSE IF reason = "insufficientPermissions" \/ reason = "forbidden"
               \/ reason = "youtubeSignupRequired" THEN 403
     ELSE IF reason = "playlistNotFound" \/ reason = "notFound" THEN 404
     ELSE IF reason = "authError" \/ reason = "invalidCredentials" THEN 401
     ELSE 500

\* the status a route answers when a list call throws: playlist-items maps
\* the reason, playlists answers 500 whatever the reason
ListErrorStatus(op, err) ==
  IF op = "LIST_ITEMS" THEN mapYouTubeErrorToHttp(err) ELSE 500

\* the values of the "all" query parameter, lower-cased
AllParams == {"none", "1", "true", "0", "false"}

forceFetchAll(allParam, pageToken) ==
  allParam = "1" \/ allParam = "true" \/ (allParam = "none" /\ ~pageToken)

forceSinglePage(allParam, pageToken) ==
  allParam = "0" \/ allParam = "false" \/ (pageToken /\ allParam # "1")

\* GET playlist-items fetches one page only
SinglePage(q) ==
  /\ q.op = "LIST_ITEMS"
  /\ forceSinglePage(q.all, q.pageToken)
  /\ ~forceFetchAll(q.all, q.pageToken)

ListMethod(op) == IF op = "LIST_ITEMS" THEN "playlistItems.list" ELSE "playlists.list"

\* the list calls of a request that returned a page
PagesFetched(cs) == Cardinality({j \in 1..Len(cs) : cs[j].ok})

ListResponse(http, code, est) ==
  [NoResp EXCEPT !.kind = IF http = 200 THEN "ok" ELSE "error",
                 !.http = http, !.code = code, !.estimatedQuota = est]

\* GET playlist-items without a playlistId: 400
ListInvalid(r) ==
  /\ pc[r] = "idle"
  /\ req' = [req EXCEPT ![r] = [NoReq EXCEPT !.op = "LIST_ITEMS"]]
  /\ resp' = [resp EXCEPT ![r] = ListResponse(400, "invalid_request", 0)]
  /\ pc' = [pc EXCEPT ![r] = "done"]
  /\ UNCHANGED <<txAction, txState, calls, cost, charged, actions, idemKeys,
                 quota_usage, quota_meta, lastMaintenanceMs, now, ledgerLog, conn>>

\* no session, or no client for the user: the empty mock answer
ListMock(r) ==
  /\ pc[r] = "idle"
  /\ \E op \in ListOps, u \in Users \cup {"none"} :
       req' = [req EXCEPT ![r] = [NoReq EXCEPT !.op = op, !.userId = u]]
  /\ resp' = [resp EXCEPT ![r] = ListResponse(200, "mock", 0)]
  /\ pc' = [pc EXCEPT ![r] = "done"]
  /\ UNCHANGED <<txAction, txState, calls, cost, charged, actions, idemKeys,
                 quota_usage, quota_meta, lastMaintenanceMs, now, ledgerLog, conn>>

\* a signed-in user's listing reaches its first list call; n is the number of
\* pages the listing has from its page token on
ListStart(r) ==
  /\ pc[r] = "idle"
  /\ \E op \in ListOps, u \in Users, n \in 1..MaxPages,
        a \in AllParams, t \in BOOLEAN :
       /\ op = "LIST_PLAYLISTS" => (a = "none" /\ ~t)
       /\ req' = [req EXCEPT ![r] = [NoReq EXCEPT !.op = op, !.userId = u, !.n = n,
                                                  !.all = a, !.pageToken = t]]
  /\ pc' = [pc EXCEPT ![r] = "list"]
  /\ UNCHANGED <<txAction, txState, calls, cost, charged, resp, actions, idemKeys,
                 quota_usage, quota_meta, lastMaintenanceMs, now, ledgerLog, conn>>

\* the units recorded when list call number page has returned: playlist-items
\* records the call's cost at once; playlists records pages x cost once the
\* loop has ended
ListUnits(op, page, last) ==
  IF op = "LIST_ITEMS" THEN METHOD_COST("playlistItems.list")
  ELSE IF last THEN page * METHOD_COST("playlists.list")
  ELSE 0

\* the answer of a listing whose recordQuota call throws: the call is inside
\* the route's try block, the catch answers the error, which carries no
\* provider reason
ListRecordThrows(op) ==
  ListResponse(ListErrorStatus(op, [responseReason |-> NoReason,
                                    errorsReason |-> NoReason]),
               "youtube_error", 0)

\* A list call returns a page.  playlist-items records its unit at once and
\* goes on while there is a next page (one page only in single-page mode; the
\* item limit ends the loop like a last page); playlists counts the page and
\* records pages x 1 after the last one.  When an upsert of the recordQuota
\* call throws, the units are not recorded, or under "global" only, and the
\* route's catch answers an error in place of the pages fetched.
ListPageOk(r) ==
  /\ pc[r] = "list"
  /\ LET op == req[r].op
         page == Len(calls[r]) + 1
         last == page = req[r].n \/ SinglePage(req[r])
         units == ListUnits(op, page, last)
     IN /\ calls' = [calls EXCEPT ![r] =
                       Append(@, [idx |-> page, method |-> ListMethod(op), ok |-> TRUE,
                                  error |-> [responseReason |-> NoReason,
                                             errorsReason |-> NoReason]])]
        /\ \E upsert \in UpsertOutcomesOf(units, req[r].userId) :
           \E o \in IF upsert = "global_throws" THEN {<<"ok", "ok">>}
                                               ELSE RecordOutcomes(QStore, now, units) :
             LET q == recordQuotaUpTo(QStore, now, units, req[r].userId, o[1], o[2],
                                      upsert)
             IN /\ quota_usage' = q.usage
                /\ quota_meta' = q.meta
                /\ lastMaintenanceMs' = q.last
                /\ charged' = [charged EXCEPT ![r] =
                                 IF upsert = "global_throws" THEN @ ELSE @ + units]
                /\ IF upsert # "ok"
                     THEN /\ pc' = [pc EXCEPT ![r] = "done"]
                          /\ resp' = [resp EXCEPT ![r] = ListRecordThrows(op)]
                     ELSE IF last
                       THEN /\ pc' = [pc EXCEPT ![r] = "done"]
                            /\ resp' = [resp EXCEPT ![r] =
                                 ListResponse(200, "ok",
                                              IF op = "LIST_PLAYLISTS"
                                                THEN page * METHOD_COST("playlists.list")
                                                ELSE 0)]
                       ELSE UNCHANGED <<pc, resp>>
  /\ UNCHANGED <<req, txAction, txState, cost, actions, idemKeys, now, ledgerLog, conn>>

\* A list call throws: the route answers the error, nothing more is recorded.
ListPageFails(r) ==
  /\ pc[r] = "list"
  /\ \E err \in Errors :
       /\ calls' = [calls EXCEPT ![r] =
                      Append(@, [idx |-> Len(calls[r]) + 1,
                                 method |-> ListMethod(req[r].op), ok |-> FALSE,
                                 error |-> err])]
       /\ resp' = [resp EXCEPT ![r] =
                     ListResponse(ListErrorStatus(req[r].op, err), "youtube_error", 0)]
  /\ pc' = [pc EXCEPT ![r] = "done"]
  /\ UNCHANGED <<req, txAction, txState, cost, charged, actions, idemKeys,
                 quota_usage, quota_meta, lastMaintenanceMs, now, ledgerLog, conn>>

NextListing ==
  \E r \in ListRequests :
    \/ ListInvalid(r)
    \/ ListMock(r)
    \/ ListStart(r)
    \/ ListPageOk(r)
    \/ ListPageFails(r)

SpecListing == Init /\ [][NextListing]_vars

(* ------------------------ withTransaction on its own -------------------- *)
(* pool.connect, BEGIN, fn, COMMIT, on an error ROLLBACK and rethrow, and    *)
(* in every case client.release; any of the statements can fail.            *)

\* the results fn can return: a finalized Action of one item
TxResults(r) ==
  UNION {{finalize(appendItem(createAction(op, "u1", ActionId(NoKey, r), r),
                              ActionItem(op, 1, o))) : o \in Outcomes(op)} :
           op \in Ops}


\* what the caller of withTransaction gets: fn's result, or the error thrown
TxOutcome(returns, row, code) ==
  IF returns
    THEN [NoResp EXCEPT !.kind = "ok", !.http = 200, !.code = "ok", !.action = row]
    ELSE ErrorResponse(500, code)

\* const client = await pool.connect(): when it rejects, nothing was acquired
\* and the try block is not entered
TxConnect(r) ==
  /\ pc[r] = "idle"
  /\ \E ok \in BOOLEAN :
       IF ok
         THEN /\ conn' = [conn EXCEPT ![r] = [acquired |-> 1, released |-> 0]]
              /\ pc' = [pc EXCEPT ![r] = "begin"]
              /\ UNCHANGED resp
         ELSE /\ resp' = [resp EXCEPT ![r] = TxOutcome(FALSE, NoRow, "connect_error")]
              /\ pc' = [pc EXCEPT ![r] = "done"]
              /\ UNCHANGED conn
  /\ UNCHANGED <<req, txAction, txState, calls, cost, charged, actions, idemKeys,
                 quota_usage, quota_meta, lastMaintenanceMs, now, ledgerLog>>

\* await client.query("BEGIN")
TxBegin(r) ==
  /\ pc[r] = "begin"
  /\ \E ok \in BOOLEAN :
       IF ok
         THEN /\ txState' = [txState EXCEPT ![r] = "open"]
              /\ pc' = [pc EXCEPT ![r] = "fn"]
         ELSE /\ pc' = [pc EXCEPT ![r] = "catch"]
              /\ UNCHANGED txState
  /\ UNCHANGED <<req, txAction, calls, cost, charged, resp, actions, idemKeys,
                 quota_usage, quota_meta, lastMaintenanceMs, now, ledgerLog, conn>>

\* const result = await fn(client): fn returns a result or throws
TxFn(r) ==
  /\ pc[r] = "fn"
  /\ \/ \E row \in TxResults(r) :
          /\ txAction' = [txAction EXCEPT ![r] = row]
          /\ pc' = [pc EXCEPT ![r] = "commit"]
     \/ /\ pc' = [pc EXCEPT ![r] = "catch"]
        /\ UNCHANGED txAction
  /\ UNCHANGED <<req, txState, calls, cost, charged, resp, actions, idemKeys,
                 quota_usage, quota_meta, lastMaintenanceMs, now, ledgerLog, conn>>

\* await client.query("COMMIT"); return result
TxCommit(r) ==
  /\ pc[r] = "commit"
  /\ \E ok \in BOOLEAN :
       IF ok
         THEN /\ actions' = CommitTx(actions, txAction[r])
              /\ txState' = [txState EXCEPT ![r] = "committed"]
              /\ pc' = [pc EXCEPT ![r] = "finally_return"]
         ELSE /\ pc' = [pc EXCEPT ![r] = "catch"]
              /\ UNCHANGED <<actions, txState>>
  /\ UNCHANGED <<req, txAction, calls, cost, charged, resp, idemKeys,
                 quota_usage, quota_meta, lastMaintenanceMs, now, ledgerLog, conn>>

\* mutant: the connection is released after the try statement and not in a
\* finally block, so a ROLLBACK that fails leaves the function unreleased
TxRollback_noFinally(r) ==
  /\ pc[r] = "catch"
  /\ actions' = RollbackTx(actions, txAction[r])
  /\ txState' = [txState EXCEPT ![r] = "rolledback"]
  /\ \E ok \in BOOLEAN :
       IF ok
         THEN /\ pc' = [pc EXCEPT ![r] = "finally_throw"]
              /\ UNCHANGED resp
         ELSE /\ pc' = [pc EXCEPT ![r] = "done"]
              /\ resp' = [resp EXCEPT ![r] = TxOutcome(FALSE, NoRow, "rollback_error")]
  /\ UNCHANGED <<req, txAction, calls, cost, charged, idemKeys,
                 quota_usage, quota_meta, lastMaintenanceMs, now, ledgerLog, conn>>

\* catch (err) { await client.query("ROLLBACK"); throw err }: when ROLLBACK
\* rejects, its error is the one that leaves the catch block; the finally
\* block runs in both cases
TxRollback(r) ==
  /\ pc[r] = "catch"
  /\ actions' = RollbackTx(actions, txAction[r])
  /\ txState' = [txState EXCEPT ![r] = "rolledback"]
  /\ \E ok \in BOOLEAN :
       pc' = [pc EXCEPT ![r] = IF ok THEN "finally_throw" ELSE "finally_throw_rollback"]
  /\ UNCHANGED <<req, txAction, calls, cost, charged, resp, idemKeys,
                 quota_usage, quota_meta, lastMaintenanceMs, now, ledgerLog, conn>>

\* finally { client.release() }, then the return or the throw takes effect
TxFinally(r) ==
  /\ pc[r] \in {"finally_return", "finally_throw", "finally_throw_rollback"}
  /\ conn' = [conn EXCEPT ![r] = Release(@)]
  /\ resp' = [resp EXCEPT ![r] =
                TxOutcome(pc[r] = "finally_return", txAction[r],
                          IF pc[r] = "finally_throw_rollback"
                            THEN "rollback_error" ELSE "internal_error")]
  /\ pc' = [pc EXCEPT ![r] = "done"]
  /\ UNCHANGED <<req, txAction, txState, calls, cost, charged, actions, idemKeys,
                 quota_usage, quota_meta, lastMaintenanceMs, now, ledgerLog>>

NextTx ==
  \E r \in Requests :
    \/ TxConnect(r)
    \/ TxBegin(r)
    \/ TxFn(r)
    \/ TxCommit(r)
    \/ TxRollback(r)
    \/ TxFinally(r)

SpecTx == Init /\ [][NextTx]_vars

(* ------------------------------- claims --------------------------------- *)

\* the request executed the operation and returned its result
Executed(r) == pc[r] = "done" /\ resp[r].kind = "ok" /\ ~resp[r].idempotent

\* the request called registerIdempotencyKey: it waits for the call to
\* resolve or has returned its result
HasRegistered(r) == req[r].key # NoKey /\ (pc[r] = "respond" \/ Executed(r))

\* r2 is a second submission of r1's operation, made after r1 returned, and
\* no other request carries their key
Resubmission(r1, r2) ==
  /\ r1 # r2
  /\ pc[r1] = "done" /\ pc[r2] = "done"
  /\ r1 \in req[r2].prior
  /\ resp[r1].kind = "ok"
  /\ req[r1].key # NoKey
  /\ req[r2].key = req[r1].key
  /\ req[r2].userId = req[r1].userId
  /\ req[r2].op = req[r1].op
  /\ req[r2].n = req[r1].n
  /\ \A q \in Requests \ {r1, r2} : req[q].key # req[r1].key

\* C1: when one user submits the same operation twice, one after the other,
\* with the same idempotency key and payload, the second submission issues no
\* remote call and answers idempotent = true with the first answer's items.
C1_IdempotentReplay ==
  \A r1, r2 \in Requests :
    Resubmission(r1, r2) =>
      /\ calls[r2] = <<>>
      /\ resp[r2].kind = "ok"
      /\ resp[r2].idempotent
      /\ resp[r2].action.items = resp[r1].action.items
      /\ resp[r2].list = resp[r1].list

\* a payload of MaxItems targets was executed, then submitted again and
\* replayed
C1_Witness ==
  \E r1, r2 \in Requests :
    /\ Resubmission(r1, r2)
    /\ Executed(r1)
    /\ req[r1].n = MaxItems
    /\ Len(calls[r1]) >= MaxItems
    /\ resp[r2].idempotent

\* C2: every idempotency key names at most one Action, and a submission that
\* arrives when its key is registered issues no remote call.
C2_RegisteredKeyNeverReexecutes ==
  /\ \A a, b \in actions : a.id = b.id => a = b
  /\ \A r \in Requests : (req[r].key # NoKey /\ req[r].seen) => calls[r] = <<>>

\* C3: a request has registered its key only if its transaction committed; a
\* request whose transaction rolled back has registered nothing, and every
\* registered key was registered by a request that committed.
C3_RegisterOnlyAfterCommit ==
  /\ \A r \in Requests : HasRegistered(r) => txState[r] = "committed"
  /\ \A r \in Requests : pc[r] \in {"register", "respond"} => txState[r] = "committed"
  /\ \A k \in idemKeys :
       \E r \in Requests : HasRegistered(r) /\ req[r].key = k
                              /\ txState[r] = "committed"

C3_Witness ==
  \E r1, r2 \in Requests :
    /\ txState[r1] = "rolledback" /\ req[r1].key # NoKey
    /\ calls[r1] # <<>>
    /\ HasRegistered(r2) /\ req[r2].key = req[r1].key
    /\ req[r1].key \in idemKeys

\* the request is between its idempotency check and its registration
InFlight(r) ==
  pc[r] \in {"summary", "connect", "begin", "exec", "commit", "ledger", "register"}

\* the request is in its unit of work or past it
InService(r) == pc[r] \in {"exec", "commit", "ledger", "register", "respond"}

\* C4: the check reserves nothing: while a request that found its key
\* unregistered is executing, the key stays unregistered unless another
\* request registers it, so a second first submission passes the check too.
C4_CheckReservesNothing ==
  \A r \in Requests :
    (InFlight(r) /\ req[r].key # NoKey /\ ~req[r].seen /\ req[r].key \in idemKeys)
      => \E q \in Requests \ {r} : HasRegistered(q) /\ req[q].key = req[r].key

\* two first submissions of one key by one user have both issued remote calls
C4_DoubleExecution ==
  \E r1, r2 \in Requests :
    /\ r1 # r2
    /\ req[r1].key # NoKey /\ req[r2].key = req[r1].key
    /\ req[r1].userId = req[r2].userId
    /\ req[r1].op = req[r2].op /\ req[r1].n = req[r2].n
    /\ ~req[r1].seen /\ ~req[r2].seen
    /\ Len(calls[r1]) >= req[r1].n /\ Len(calls[r2]) >= req[r2].n
    /\ Executed(r1) /\ Executed(r2)

\* C5: when the unit of work throws or COMMIT fails, the request fails with
\* an error and no Action row (with its items) written by it is in the log.
C5_RollbackLeavesNoRow ==
  \A r \in Requests :
    txState[r] = "rolledback" =>
      /\ pc[r] = "done"
      /\ resp[r].kind = "error"
      /\ \A a \in actions : a.by # r

C5_Witness ==
  \E r \in Requests :
    /\ txState[r] = "rolledback"
    /\ Len(calls[r]) >= req[r].n
    /\ \E q \in Requests : txState[q] = "committed"

CountStatus(its, st) == Cardinality({j \in 1..Len(its) : its[j].status = st})

\* the request's operation ran to the end and its transaction committed
Committed(r) == pc[r] = "done" /\ txState[r] = "committed"

\* C6 as stated: whenever exactly one item of a committed bulk operation
\* failed, the Action has N items, N-1 of them succeeded, its status is
\* "partial" and the request returned ok.
C6_PartialBatchAnyN ==
  \A r \in Requests :
    (Committed(r) /\ CountStatus(txAction[r].items, "failed") = 1) =>
      /\ Len(txAction[r].items) = req[r].n
      /\ CountStatus(txAction[r].items, "success") = req[r].n - 1
      /\ txAction[r].status = "partial"
      /\ resp[r].kind = "ok"
      /\ resp[r].action = txAction[r]

\* C6, amended: the same for operations over at least two items (a single
\* item that fails leaves the Action "failed").
C6_PartialBatch ==
  \A r \in Requests :
    (Committed(r) /\ req[r].n >= 2
       /\ CountStatus(txAction[r].items, "failed") = 1) =>
      /\ Len(txAction[r].items) = req[r].n
      /\ CountStatus(txAction[r].items, "success") = req[r].n - 1
      /\ txAction[r].status = "partial"
      /\ resp[r].kind = "ok"
      /\ resp[r].action = txAction[r]
      /\ \A a \in actions : a.by = r => a = txAction[r]

C6_Witness ==
  \E r \in Requests :
    /\ Committed(r)
    /\ req[r].op = "REMOVE"
    /\ req[r].n = 2
    /\ txAction[r].items[1].status = "success"
    /\ txAction[r].items[2].status = "failed"
    /\ resp[r].action.status = "partial"
    /\ resp[r].kind = "ok"

\* every Action row in the log, in a transaction or in a response
AllRows ==
  actions \cup {txAction[r] : r \in Requests} \cup {resp[r].action : r \in Requests}

\* C7: a MOVE item is "success" only when its delete and its insert both
\* succeeded; an item whose delete succeeded and whose insert failed is
\* "failed", and a MOVE response lists as moved only items with both legs done.
C7_MoveAtomicPerItem ==
  /\ \A row \in AllRows : \A j \in 1..Len(row.items) :
       LET it == row.items[j]
       IN it.type = "MOVE" =>
            /\ it.status = "success" => (it.del = "ok" /\ it.ins = "ok")
            /\ (it.del = "ok" /\ it.ins = "fail") => it.status = "failed"
  /\ \A r \in Requests :
       (req[r].op = "MOVE" /\ resp[r].kind = "ok") =>
         \A e \in 1..Len(resp[r].list) :
           \E j \in 1..Len(resp[r].action.items) :
             LET it == resp[r].action.items[j]
             IN /\ it.videoId = resp[r].list[e].videoId
                /\ it.type = "MOVE"
                /\ it.del = "ok" /\ it.ins = "ok"

C7_Witness ==
  \E r \in Requests :
    /\ Executed(r)
    /\ req[r].op = "MOVE"
    /\ req[r].n = 1
    /\ resp[r].action.items[1].del = "ok"
    /\ resp[r].action.items[1].ins = "fail"
    /\ resp[r].action.items[1].status = "failed"
    /\ resp[r].list = <<>>

\* C8: the targets are processed in order, one remote call after the other;
\* every target gets its remote call and its ActionItem, also after an
\* earlier target failed, and the loop ends only when all have theirs.
C8_EveryTargetInOrder ==
  \A r \in Requests :
    (InService(r) \/ Executed(r)) =>
      LET its == txAction[r].items
          cs == calls[r]
      IN /\ \A j \in 1..Len(its) : its[j].videoId = j
         /\ \A j \in 1..Len(cs) : cs[j].idx <= Len(its)
         /\ \A j \in 1..(Len(cs) - 1) : cs[j].idx <= cs[j + 1].idx
         /\ \A i \in 1..Len(its) : \E j \in 1..Len(cs) : cs[j].idx = i
         /\ pc[r] # "exec" => Len(its) = req[r].n

C8_Witness ==
  \E r \in Requests :
    /\ Executed(r)
    /\ req[r].n = 2
    /\ txAction[r].items[1].status = "failed"
    /\ Len(txAction[r].items) = 2
    /\ \E j \in 1..Len(calls[r]) : calls[r][j].idx = 2

RECURSIVE ChargedSum(_, _)
\* the units that requests 1..k of scope sc ("global": all) have recorded
ChargedSum(k, sc) ==
  IF k = 0 THEN 0
  ELSE (IF sc = "global" \/ req[k].userId = sc THEN charged[k] ELSE 0)
       + ChargedSum(k - 1, sc)

CallsOf(r, i) == {j \in 1..Len(calls[r]) : calls[r][j].idx = i}

\* C9: what an operation records is 50 units for every remote call it issued
\* (a MOVE item: 100 when its insert was attempted, 50 when its delete
\* failed); the ledger holds the sum of what was recorded; after an ADD of n
\* videos with no other usage getTodayQuota gives used = 50 n and
\* remain = 10000 - 50 n (n = 3: used = 150, remain = 9850).
C9_RecordedCost ==
  /\ \A r \in Requests : charged[r] > 0 => charged[r] = 50 * Len(calls[r])
  /\ \A r \in Requests :
       (Executed(r) /\ req[r].op = "MOVE") =>
         /\ charged[r] > 0
         /\ \A i \in 1..req[r].n :
              Cardinality(CallsOf(r, i)) =
                IF txAction[r].items[i].del = "ok" THEN 2 ELSE 1
  /\ LET tk == todayKeyPT(now)
     IN \A sc \in Users \cup {"global"} :
          getUsage(quota_usage, tk, sc) = ChargedSum(NReq, sc)
  /\ \A r \in Requests :
       (Executed(r) /\ req[r].op = "ADD"
          /\ \A q \in Requests \ {r} : charged[q] = 0) =>
         LET q == getTodayQuota(quota_usage, now, req[r].userId)
         IN /\ q.used = 50 * req[r].n
            /\ q.remain = 10000 - 50 * req[r].n
            /\ req[r].n = ScenarioItems => (q.used = 150 /\ q.remain = 9850)

\* scenario A: an ADD of 3 videos has executed with no other usage; 150 units
\* are recorded under "global" and under the user, getTodayQuota gives
\* used = 150 and remain = 9850
C9_Witness ==
  \E r \in Requests :
    /\ Executed(r)
    /\ req[r].op = "ADD"
    /\ req[r].n = ScenarioItems
    /\ Len(calls[r]) = 3
    /\ charged[r] = 150
    /\ \A q \in Requests \ {r} : charged[q] = 0
    /\ getTodayQuota(quota_usage, now, req[r].userId).used = 150
    /\ getTodayQuota(quota_usage, now, req[r].userId).remain = 9850
    /\ getUsage(quota_usage, todayKeyPT(now), "global") = 150

C11_PostCommitBestEffort ==
  \A r \in Requests :
    Committed(r) =>
      /\ resp[r].kind = "ok"
      /\ resp[r].action = txAction[r]
      /\ txAction[r] \in actions \/ \E a \in actions : a.id = txAction[r].id

(* ----------------------- claims about the ledger ------------------------ *)

\* the log holds no direct call of addUsage: every write was a recordQuota
NoDirectWrites == \A j \in 1..Len(ledgerLog) : ledgerLog[j].fn # "addUsage"

\* the increments a logged call made: recordQuota with units > 0 writes its
\* units under "global" and, when a userId is given, under the userId; a
\* direct addUsage with delta > 0 writes its delta to the key it names
IncrementsOfCall(e) ==
  IF e.fn = "recordQuota" /\ e.units > 0
    THEN <<[key |-> <<todayKeyPT(e.at), "global">>, delta |-> e.units, by |-> e.userId]>>
         \o (IF e.userId # "none"
               THEN <<[key |-> <<todayKeyPT(e.at), e.userId>>, delta |-> e.units,
                       by |-> e.userId]>>
               ELSE <<>>)
    ELSE IF e.fn = "addUsage" /\ e.units > 0
      THEN <<[key |-> <<e.dateKey, e.scope>>, delta |-> e.units, by |-> "addUsage"]>>
      ELSE <<>>

RECURSIVE IncrementsOf(_)
\* the increments of a log, in the order they were made
IncrementsOf(log) ==
  IF log = <<>> THEN <<>> ELSE IncrementsOfCall(Head(log)) \o IncrementsOf(Tail(log))

\* the increments made to one (day, scope) key, in order
DeltasTo(k) == SelectSeq(IncrementsOf(ledgerLog), LAMBDA i : i.key = k)

TouchedKeys == {IncrementsOf(ledgerLog)[j].key : j \in 1..Len(IncrementsOf(ledgerLog))}

RECURSIVE SumDeltas(_)
SumDeltas(ds) == IF ds = <<>> THEN 0 ELSE Head(ds).delta + SumDeltas(Tail(ds))

RECURSIVE ApplyIncrements(_, _)
\* the table after the increments ds, made one after the other
ApplyIncrements(usage, ds) ==
  IF ds = <<>> THEN usage
  ELSE ApplyIncrements(upsertUsage(usage, Head(ds).key, Max(0, Head(ds).delta)), Tail(ds))

Orderings(n) == {p \in [1..n -> 1..n] : \A i, j \in 1..n : p[i] = p[j] => i = j}

Permuted(ds, p) == [i \in 1..Len(ds) |-> ds[p[i]]]

EmptyUsage == [k \in {} |-> 0]

\* C12: for the increments made to one (day, scope), the row holds the sum of
\* the deltas, today's row is there, and making the same increments in any
\* other order gives the same used value.
C12_IncrementsCommute ==
  \A k \in TouchedKeys :
    LET ds == DeltasTo(k)
    IN /\ k \in DOMAIN quota_usage => quota_usage[k] = SumDeltas(ds)
       /\ k[1] = todayKeyPT(now) => k \in DOMAIN quota_usage
       /\ \A p \in Orderings(Len(ds)) :
            getUsage(ApplyIncrements(EmptyUsage, Permuted(ds, p)), k[1], k[2])
              = SumDeltas(ds)

C12_Witness ==
  \E k \in TouchedKeys :
    LET ds == DeltasTo(k)
    IN /\ Len(ds) = 3
       /\ ds[1].delta # ds[2].delta
       /\ k \in DOMAIN quota_usage
       /\ quota_usage[k] = SumDeltas(ds)

\* the units one caller has written to a key, among the increments incs
WrittenBy(incs, u, k) ==
  SumDeltas(SelectSeq(incs, LAMBDA i : i.key = k /\ i.by = u))

RECURSIVE WrittenByAll(_, _, _)
WrittenByAll(incs, S, k) ==
  IF S = {} THEN 0
  ELSE LET u == CHOOSE x \in S : TRUE
       IN WrittenBy(incs, u, k) + WrittenByAll(incs, S \ {u}, k)

\* who writes to the ledger: the callers of recordQuota and the direct callers
\* of addUsage
Writers == Callers \cup {"addUsage"}

\* C13: whatever the order in which several callers' increments to one
\* (day, scope) reach the table, the row holds what every caller wrote: no
\* increment is lost or overwritten.
C13_NoLostIncrement ==
  LET incs == IncrementsOf(ledgerLog)
  IN \A k \in DOMAIN quota_usage :
       /\ quota_usage[k] = WrittenByAll(incs, Writers, k)
       /\ \A u \in Writers : quota_usage[k] >= WrittenBy(incs, u, k)

C13_Witness ==
  /\ Len(ledgerLog) = 3
  /\ \A j \in 1..3 : ledgerLog[j].fn = "recordQuota" /\ ledgerLog[j].units > 0
  /\ ledgerLog[1].userId = "u1" /\ ledgerLog[2].userId = "u2"
  /\ ledgerLog[3].userId = "u1"
  /\ todayKeyPT(ledgerLog[1].at) = todayKeyPT(ledgerLog[3].at)
  /\ quota_usage[<<todayKeyPT(now), "global">>]
       = ledgerLog[1].units + ledgerLog[2].units + ledgerLog[3].units

\* the used value of today's row of a scope, 0 when there is none
TodayRow(sc) ==
  IF <<todayKeyPT(now), sc>> \in DOMAIN quota_usage
    THEN quota_usage[<<todayKeyPT(now), sc>>] ELSE 0

\* C14: getTodayQuota(userId).used is the user's own usage of today when that
\* is > 0, and today's global usage otherwise, also when no userId is given.
C14_FallbackLaw ==
  \A u \in Callers :
    LET q == getTodayQuota(quota_usage, now, u)
    IN /\ (u # "none" /\ TodayRow(u) > 0) => q.used = TodayRow(u)
       /\ (u = "none" \/ TodayRow(u) = 0) => q.used = TodayRow("global")

C14_Witness ==
  /\ TodayRow("u1") > 0
  /\ TodayRow("u2") = 0
  /\ TodayRow("global") > TodayRow("u1")
  /\ getTodayQuota(quota_usage, now, "u1").used = TodayRow("u1")
  /\ getTodayQuota(quota_usage, now, "u2").used = TodayRow("global")
  /\ getTodayQuota(quota_usage, now, "none").used = TodayRow("global")

\* C15: remain = max(0, budget - used): never negative, budget - used while
\* used <= budget, and 0 once used >= budget.
C15_RemainClamped ==
  \A u \in Callers :
    LET q == getTodayQuota(quota_usage, now, u)
    IN /\ q.budget = DAILY_BUDGET
       /\ q.remain >= 0
       /\ q.used <= DAILY_BUDGET => q.remain = DAILY_BUDGET - q.used
       /\ q.used >= DAILY_BUDGET => q.remain = 0

C15_Witness ==
  \E u \in Callers :
    LET q == getTodayQuota(quota_usage, now, u)
    IN q.used > DAILY_BUDGET /\ q.remain = 0

\* the second of the Pacific day at time t
SecondOfDayPT(t) == (t - PtOffsetAt(t)) % SECONDS_PER_DAY

RECURSIVE UnitsOn(_, _, _)
\* the units that the recordQuota calls of the log recorded on day d, by
\* caller who ("any": by every caller)
UnitsOn(log, d, who) ==
  IF log = <<>> THEN 0
  ELSE (IF Head(log).fn = "recordQuota" /\ Head(log).units > 0
           /\ todayKeyPT(Head(log).at) = d
           /\ (who = "any" \/ Head(log).userId = who)
          THEN Head(log).units ELSE 0)
       + UnitsOn(Tail(log), d, who)

\* what the calls of the log made up to time hi wrote to the key k
WrittenUntil(log, k, hi) ==
  SumDeltas(SelectSeq(IncrementsOf(SelectSeq(log, LAMBDA e : e.at <= hi)),
                      LAMBDA i : i.key = k))

\* C16: a usage recorded at 23:59:59 and one recorded two seconds later, at
\* 00:00:01 of the next Pacific day, are kept under two date keys one day
\* apart; the first day's used is what was written under "global" on that day
\* up to 23:59:59 and does not contain the second, which is in the next day's
\* used.
C16_RolloverBoundary ==
  \A i, j \in 1..Len(ledgerLog) :
    LET a == ledgerLog[i]
        b == ledgerLog[j]
        ka == <<todayKeyPT(a.at), "global">>
        kb == <<todayKeyPT(b.at), "global">>
    IN (/\ a.fn = "recordQuota" /\ a.units > 0
        /\ b.fn = "recordQuota" /\ b.units > 0
        /\ SecondOfDayPT(a.at) = SECONDS_PER_DAY - 1
        /\ b.at = a.at + 2)
       => /\ todayKeyPT(b.at) = todayKeyPT(a.at) + 1
          /\ SecondOfDayPT(b.at) = 1
          /\ NoDirectWrites =>
               /\ getUsage(quota_usage, ka[1], "global")
                    = WrittenUntil(ledgerLog, ka, a.at)
               /\ getUsage(quota_usage, kb[1], "global")
                    = WrittenUntil(ledgerLog, kb, now)
               /\ WrittenUntil(ledgerLog, kb, now) >= b.units
               /\ WrittenUntil(ledgerLog, ka, now) = WrittenUntil(ledgerLog, ka, a.at)

C16_Witness ==
  /\ Len(ledgerLog) = 3
  /\ ledgerLog[1].fn = "recordQuota" /\ ledgerLog[1].units = 50
  /\ SecondOfDayPT(ledgerLog[1].at) = SECONDS_PER_DAY - 1
  /\ ledgerLog[2].fn = "tick"
  /\ ledgerLog[3].fn = "recordQuota" /\ ledgerLog[3].units = 6000
  /\ SecondOfDayPT(ledgerLog[3].at) = 1
  /\ getUsage(quota_usage, todayKeyPT(ledgerLog[1].at), "global") = 50
  /\ getUsage(quota_usage, todayKeyPT(ledgerLog[3].at), "global") = 6000

\* the call a step has just appended to the log
LastCall(log) == log[Len(log)]

\* C17 as stated: a write of units <= 0, by recordQuota(method, units, userId)
\* or by addUsage(dateKey, scope, delta), is a no-op: every row of quota_usage
\* and the set of its keys are unchanged.
C17_NonPositiveWriteIsNoOp ==
  [][Len(ledgerLog') = Len(ledgerLog) + 1 =>
       LET e == LastCall(ledgerLog')
       IN (e.fn \in {"recordQuota", "addUsage"} /\ e.units <= 0)
            => (/\ quota_usage' = quota_usage
                /\ DOMAIN quota_usage' = DOMAIN quota_usage)]_vars

\* C17, amended: a recordQuota call with units <= 0 is a no-op: every row of
\* quota_usage and the set of its keys, quota_meta and the maintenance
\* throttle are as before.  The write it skips, addUsage with a delta <= 0,
\* adds nothing to any used value and to what getTodayQuota shows, but creates
\* the row it names with used = 0 when there is none, and runs the sweep.
C17_NonPositiveIsNoOp ==
  [][Len(ledgerLog') = Len(ledgerLog) + 1 =>
       LET e == LastCall(ledgerLog')
       IN /\ (e.fn = "recordQuota" /\ e.units <= 0)
               => (/\ quota_usage' = quota_usage
                   /\ DOMAIN quota_usage' = DOMAIN quota_usage
                   /\ quota_meta' = quota_meta
                   /\ lastMaintenanceMs' = lastMaintenanceMs)
          /\ (e.fn = "addUsage" /\ e.units <= 0)
               => (/\ \A k \in DOMAIN quota_usage' :
                        quota_usage'[k] = getUsage(quota_usage, k[1], k[2])
                   /\ <<e.dateKey, e.scope>> \in DOMAIN quota_usage'
                   /\ DOMAIN quota_usage' \ DOMAIN quota_usage
                        \subseteq {<<e.dateKey, e.scope>>}
                   /\ \A k \in DOMAIN quota_usage \ DOMAIN quota_usage' :
                        e.pruned /\ k[1] < pastKeyPT(now, DEFAULT_RETENTION_DAYS)
                   /\ \A u \in Callers :
                        getTodayQuota(quota_usage', now, u)
                          = getTodayQuota(quota_usage, now, u))]_vars

\* two recordQuota calls, the second with units <= 0, then a direct addUsage
\* of -50 that has created a row of 0
C17_Witness ==
  /\ Len(ledgerLog) = 3
  /\ ledgerLog[1].fn = "recordQuota" /\ ledgerLog[1].units = 50
  /\ ledgerLog[1].userId = "u1"
  /\ ledgerLog[2].fn = "recordQuota" /\ ledgerLog[2].units = -50
  /\ ledgerLog[2].userId = "u1"
  /\ ledgerLog[3].fn = "addUsage" /\ ledgerLog[3].units = -50
  /\ ledgerLog[3].scope = "u2" /\ ledgerLog[3].dateKey = todayKeyPT(now)
  /\ quota_usage = (<<todayKeyPT(now), "global">> :> 50)
                    @@ (<<todayKeyPT(now), "u1">> :> 50)
                    @@ (<<todayKeyPT(now), "u2">> :> 0)

\* C18 as stated: across every ledger operation, maintenance sweeps included,
\* the used value of every (dateKey, scope) never decreases.
C18_MonotoneAlways ==
  [][\A k \in DOMAIN quota_usage :
       getUsage(quota_usage', k[1], k[2]) >= quota_usage[k]]_vars

\* C18, amended: the used value of a (dateKey, scope) never decreases while
\* its date is inside the retention window (not older than today minus the
\* retention days); a row is dropped only by the sweep, only when it is older,
\* and an increment adds exactly its units to the row of today.
C18_MonotoneWithinRetention ==
  [][\A k \in DOMAIN quota_usage :
       /\ k[1] >= pastKeyPT(now', DEFAULT_RETENTION_DAYS)
            => /\ k \in DOMAIN quota_usage'
               /\ quota_usage'[k] >= quota_usage[k]
       /\ k \in DOMAIN quota_usage' => quota_usage'[k] >= quota_usage[k]
       /\ k \notin DOMAIN quota_usage'
            => k[1] < pastKeyPT(now', DEFAULT_RETENTION_DAYS)]_vars

C18_Witness ==
  /\ Len(ledgerLog) = 3
  /\ ledgerLog[1].fn = "recordQuota" /\ ledgerLog[1].units = 50
  /\ ledgerLog[2].fn = "tick" /\ todayKeyPT(now) = todayKeyPT(ledgerLog[1].at) + 7
  /\ ledgerLog[3].fn = "recordQuota" /\ ledgerLog[3].units = 50
  /\ quota_meta["last_prune_pt"] = todayKeyPT(now)
  /\ getUsage(quota_usage, todayKeyPT(ledgerLog[1].at), "global") = 50
  /\ getUsage(quota_usage, todayKeyPT(now), "global") = 50

(* ------------------- claims about replay and responses ------------------ *)

\* C19: the step in which a request is answered with idempotent = true (a
\* replay), and the check of the key before it, issue no remote call, open no
\* transaction, write no Action or ActionItem, register no key and leave the
\* quota ledger as it was.
C19_ReplayNoSideEffects ==
  [][\A r \in Requests :
       ((resp'[r].idempotent /\ ~resp[r].idempotent) \/ (pc[r] = "idle" /\ pc'[r] = "summary")) =>
         /\ calls'[r] = <<>> /\ calls' = calls
         /\ txState'[r] = "none" /\ txState' = txState
         /\ txAction'[r] = NoRow /\ txAction' = txAction
         /\ actions' = actions
         /\ idemKeys' = idemKeys
         /\ charged'[r] = 0 /\ charged' = charged
         /\ quota_usage' = quota_usage
         /\ quota_meta' = quota_meta
         /\ lastMaintenanceMs' = lastMaintenanceMs]_vars

C19_Witness ==
  \E r1, r2 \in Requests :
    /\ Executed(r1) /\ charged[r1] > 0
    /\ pc[r2] = "done" /\ resp[r2].idempotent
    /\ req[r2].key = req[r1].key
    /\ calls[r2] = <<>> /\ txState[r2] = "none" /\ charged[r2] = 0
    /\ actions = {txAction[r1]}
    /\ getUsage(quota_usage, todayKeyPT(now), "global") = charged[r1]

\* the positions of the items of the route's type whose status is success:
\* the items whose insert (MOVE: delete and insert) succeeded
SucceededAt(op, its) ==
  {j \in 1..Len(its) : its[j].type = op /\ its[j].status = "success"}

\* the positions of the succeeded items that carry the id of the new
\* playlist item (MOVE: and that of the old one)
ListedAt(op, its) ==
  {j \in SucceededAt(op, its) :
     /\ its[j].targetPlaylistItemId # 0
     /\ op = "MOVE" => its[j].sourcePlaylistItemId # 0}

\* the list has one entry for each position of at, in order, and no other
ListsExactly(list, its, at) ==
  /\ Len(list) = Cardinality(at)
  /\ \A j \in at : \E e \in 1..Len(list) :
       /\ list[e].videoId = its[j].videoId
       /\ list[e].playlistItemId = its[j].targetPlaylistItemId
       /\ list[e].from = (IF its[j].type = "MOVE" THEN its[j].sourcePlaylistItemId ELSE 0)
  /\ \A e \in 1..Len(list) : \E j \in at : list[e].videoId = its[j].videoId
  /\ \A e \in 1..(Len(list) - 1) : list[e].videoId < list[e + 1].videoId

\* the answer of request r carries a created / moved list
Shaped(r) == resp[r].kind = "ok" /\ req[r].op \in {"ADD", "MOVE"}

\* C20 as stated: the created list of an ADD response holds exactly the items
\* whose insert succeeded, the moved list of a MOVE response exactly the
\* items whose delete and insert both succeeded; a failed or skipped item is
\* in neither.
C20_ListsEverySuccess ==
  \A r \in Requests :
    Shaped(r) =>
      ListsExactly(resp[r].list, resp[r].action.items,
                   SucceededAt(req[r].op, resp[r].action.items))

\* C20, amended: the created list of an ADD response holds exactly the ADD
\* items with status success that carry a targetPlaylistItemId, the moved
\* list of a MOVE response exactly the MOVE items with status success that
\* carry a sourcePlaylistItemId and a targetPlaylistItemId, as
\* {playlistItemId, videoId} and {from, to, videoId}, in the order of the
\* items; a failed or skipped item is in neither list, and neither is an
\* item of another type.
C20_ResponseShaping ==
  \A r \in Requests :
    Shaped(r) =>
      LET its == resp[r].action.items
          list == resp[r].list
      IN /\ ListsExactly(list, its, ListedAt(req[r].op, its))
         /\ \A e \in 1..Len(list) : \A j \in 1..Len(its) :
              its[j].videoId = list[e].videoId
                => /\ its[j].status = "success"
                   /\ its[j].type = req[r].op
                   /\ list[e].playlistItemId # 0

\* an ADD answer over a skipped item and a succeeded one with its id: the
\* created list holds the second only
C20_Witness ==
  \E r \in Requests :
    /\ Shaped(r) /\ req[r].op = "ADD"
    /\ Len(resp[r].action.items) = 2
    /\ resp[r].action.items[1].type = "ADD"
    /\ resp[r].action.items[1].status = "skipped"
    /\ resp[r].action.items[1].targetPlaylistItemId # 0
    /\ resp[r].action.items[2].type = "ADD"
    /\ resp[r].action.items[2].status = "success"
    /\ resp[r].action.items[2].targetPlaylistItemId # 0
    /\ Len(resp[r].list) = 1 /\ resp[r].list[1].videoId = 2

(* --------------------- claims about rejected requests ------------------- *)

\* the request was turned away by the payload, session or token check
Rejected(r) ==
  pc[r] = "done" /\ resp[r].kind = "error" /\ <<resp[r].http, resp[r].code>> \in Rejections

\* C21: the step that rejects a request (malformed payload, no session, no
\* remote tokens) issues no remote call, opens no transaction, writes no
\* Action, registers no key and writes nothing to the ledger; a rejected
\* request has none of these and never takes another step.
C21_RejectNoSideEffects ==
  [][\A r \in Requests :
       /\ (Rejected(r)' /\ ~Rejected(r)) =>
            /\ calls' = calls /\ calls'[r] = <<>>
            /\ txState' = txState /\ txState'[r] = "none"
            /\ txAction' = txAction /\ txAction'[r] = NoRow
            /\ actions' = actions
            /\ idemKeys' = idemKeys
            /\ charged' = charged /\ charged'[r] = 0
            /\ quota_usage' = quota_usage
            /\ quota_meta' = quota_meta
            /\ lastMaintenanceMs' = lastMaintenanceMs
       /\ Rejected(r) =>
            /\ pc'[r] = pc[r] /\ resp'[r] = resp[r] /\ req'[r] = req[r]
            /\ calls'[r] = <<>> /\ txState'[r] = "none" /\ txAction'[r] = NoRow
            /\ charged'[r] = 0]_vars

C21_Witness ==
  \E r1, r2 \in Requests :
    /\ Executed(r1) /\ req[r1].key # NoKey /\ charged[r1] > 0
    /\ r1 \in req[r2].prior
    /\ Rejected(r2) /\ resp[r2].code = "no_tokens"
    /\ calls[r2] = <<>> /\ txState[r2] = "none" /\ charged[r2] = 0
    /\ actions = {txAction[r1]}
    /\ idemKeys = {req[r1].key}
    /\ getUsage(quota_usage, todayKeyPT(now), "global") = charged[r1]

\* the step in which request r passes the rejection checks and reaches the
\* idempotency check
Arrives(r) == pc[r] = "idle" /\ pc'[r] # "idle" /\ req'[r].op # "none"

\* the step in which the summary of request r's key is read: at arrival by a
\* route that does not await, else in the step after the check
ReadsSummary(r) ==
  \/ Arrives(r) /\ ~RouteAwaitsStore(req'[r].op)
  \/ pc[r] = "summary" /\ pc'[r] # "summary"

\* C22: a submission whose key is registered while the stored Action is
\* missing or owned by another user is a cache miss: it is not answered from
\* the store but goes on to withTransaction, which opens a transaction with a
\* new pending Action; when it returns ok it has issued its remote calls,
\* committed, registered the key and answers idempotent = false.
C22_RegisteredKeyMissIsExecuted ==
  [][\A r \in Requests :
       /\ (/\ ReadsSummary(r)
           /\ req'[r].key # NoKey
           /\ req'[r].seen
           /\ LET summary == getActionSummary(actions, ActionId(req'[r].key, 0))
              IN summary = NoRow \/ summary.userId # req'[r].userId)
          => /\ pc'[r] = "connect"
             /\ resp'[r] = NoResp
       /\ (pc[r] = "begin" /\ pc'[r] \notin {"begin", "done"})
          => /\ pc'[r] = "exec"
             /\ txState'[r] = "open"
             /\ txAction'[r] = createAction(req[r].op, req[r].userId,
                                            ActionId(req[r].key, r), r)
       /\ (req[r].key # NoKey /\ req[r].seen /\ pc[r] = "done"
             /\ resp[r].kind = "ok" /\ calls[r] # <<>>)
          => /\ ~resp[r].idempotent
             /\ Len(calls[r]) >= req[r].n
             /\ txState[r] = "committed"
             /\ req[r].key \in idemKeys
             /\ resp[r].action.userId = req[r].userId]_vars

\* the first request finds its key registered and no Action stored under it,
\* and executes; the second, of another user, arrives when the first has
\* returned, finds the key registered and the Action owned by the first, and
\* executes as well
C22_Witness ==
  \E r1, r2 \in Requests :
    /\ req[r1].prior = {} /\ r1 < r2
    /\ req[r1].key # NoKey /\ req[r1].seen /\ req[r1].userId = "u1"
    /\ Executed(r1) /\ calls[r1] # <<>> /\ txState[r1] = "committed"
    /\ r1 \in req[r2].prior
    /\ req[r2].key = req[r1].key /\ req[r2].seen /\ req[r2].userId = "u2"
    /\ Executed(r2) /\ calls[r2] # <<>> /\ txState[r2] = "committed"
    /\ ~resp[r2].idempotent
    /\ resp[r2].action.userId = "u2"

\* the fixed cost of one item of an operation
FixedCost(op) == IF ServiceType(op) = "MOVE" THEN 100 ELSE 50

\* C23: a replayed response carries estimatedQuota = (number of items in the
\* request) x 50 for ADD and REMOVE, x 100 for MOVE, whatever the number of
\* items that succeeded and whatever cost was recorded at first.
C23_ReplayEstimateByRequestSize ==
  \A r \in Requests :
    (pc[r] = "done" /\ resp[r].kind = "ok" /\ resp[r].idempotent) =>
      resp[r].estimatedQuota = req[r].n * FixedCost(req[r].op)

(* ------------------------- claims about finalize ------------------------ *)

\* the request's Action has been finalized
Finalized(r) == pc[r] \in {"commit", "ledger", "register"} /\ txAction[r] # NoRow

\* C24: a finalized Action is "success" when all its items succeeded,
\* "partial" when some succeeded and some failed, "failed" when all failed or
\* when no item was attempted although targets were requested; it is never
\* "pending", and neither is an Action in the log.
C24_FinalizeStatus ==
  /\ \A r \in Requests :
       Finalized(r) =>
         LET its == txAction[r].items
             nOk == CountStatus(its, "success")
             nFailed == CountStatus(its, "failed")
         IN /\ nOk + nFailed = Len(its)
            /\ (Len(its) > 0 /\ nFailed = 0) => txAction[r].status = "success"
            /\ (nOk > 0 /\ nFailed > 0) => txAction[r].status = "partial"
            /\ (Len(its) > 0 /\ nOk = 0) => txAction[r].status = "failed"
            /\ (Len(its) = 0 /\ req[r].n > 0) => txAction[r].status = "failed"
            /\ txAction[r].status \in {"success", "partial", "failed"}
  /\ \A a \in actions : a.status # "pending"

C24_Witness ==
  /\ Finalized(1)
  /\ req[1].n = 3
  /\ txAction[1].items = <<>>
  /\ txAction[1].status = "failed"

(* ---------------------- claims about provider errors -------------------- *)

\* the kind of failure a provider reason stands for
FailureKind(reason) ==
  CASE reason = "quotaExceeded" -> "quota_exceeded"
    [] reason = "rateLimitExceeded" -> "rate_limited"
    [] reason \in {"insufficientPermissions", "forbidden", "youtubeSignupRequired"}
         -> "forbidden"
    [] reason \in {"playlistNotFound", "notFound"} -> "not_found"
    [] reason \in {"authError", "invalidCredentials"} -> "unauthorized"
    [] OTHER -> "unknown"

\* the status stated for each kind of failure
StatedStatus(kind) ==
  CASE kind = "quota_exceeded" -> 429
    [] kind = "rate_limited" -> 429
    [] kind = "forbidden" -> 403
    [] kind = "not_found" -> 404
    [] kind = "unauthorized" -> 401
    [] OTHER -> 500

\* the request's list call failed and the route answered the failure
ListFailed(r) ==
  /\ pc[r] = "done"
  /\ req[r].op \in ListOps
  /\ calls[r] # <<>>
  /\ ~calls[r][Len(calls[r])].ok

\* C25: when a provider call fails, the route answers 429 for quota_exceeded
\* and rate_limited, 403 for forbidden, 404 for not_found, 401 for
\* unauthorized, and 500 for any other reason or none.
C25_ReasonToStatus ==
  \A r \in Requests :
    ListFailed(r) =>
      resp[r].http =
        StatedStatus(FailureKind(ReasonOf(calls[r][Len(calls[r])].error)))

(* ----------------------- claims about maintenance ----------------------- *)

\* the positions of the log at which the sweep (prune and compaction check)
\* was executed by a call of one of the functions fns
SweepsBy(fns) ==
  {j \in 1..Len(ledgerLog) : ledgerLog[j].swept /\ ledgerLog[j].fn \in fns}

\* the functions that write usage and run the throttled sweep
LedgerWrites == {"recordQuota", "addUsage"}

\* C26 as stated: whatever the ledger operations, any two executions of the
\* sweep are at least one hour apart.
C26_SweepOncePerHour ==
  \A i, j \in SweepsBy(LedgerWrites \cup {"maintenance"}) :
    i < j => ledgerLog[j].at - ledgerLog[i].at >= MAINTENANCE_THROTTLE_SECONDS

\* C26, amended: any two executions of the sweep by ledger writes are at
\* least one hour apart, however many writes are made; a write made less
\* than an hour after such a sweep does not sweep; the throttle's time stamp
\* is the time of the last sweep made by a write.
C26_WriteSweepOncePerHour ==
  /\ \A i, j \in SweepsBy(LedgerWrites) :
       i < j => ledgerLog[j].at - ledgerLog[i].at >= MAINTENANCE_THROTTLE_SECONDS
  /\ \A i, j \in 1..Len(ledgerLog) :
       (/\ i < j
        /\ i \in SweepsBy(LedgerWrites)
        /\ ledgerLog[j].fn \in LedgerWrites
        /\ ledgerLog[j].at - ledgerLog[i].at < MAINTENANCE_THROTTLE_SECONDS)
       => ~ledgerLog[j].swept
  /\ \A j \in SweepsBy(LedgerWrites) :
       (\A i \in SweepsBy(LedgerWrites) : i <= j)
         => lastMaintenanceMs = ledgerLog[j].at
  /\ SweepsBy(LedgerWrites) = {} => lastMaintenanceMs = 0

C26_Witness ==
  /\ Len(ledgerLog) = 3
  /\ ledgerLog[1].fn = "recordQuota" /\ ledgerLog[1].units > 0 /\ ledgerLog[1].swept
  /\ ledgerLog[2].fn = "tick"
  /\ ledgerLog[3].fn = "recordQuota" /\ ledgerLog[3].units > 0
  /\ ledgerLog[3].at = ledgerLog[1].at + 2
  /\ ~ledgerLog[3].swept
  /\ lastMaintenanceMs = ledgerLog[1].at

\* the positions of the log at which a compaction pass was executed
Compactions == {j \in 1..Len(ledgerLog) : ledgerLog[j].vacuumed}

\* C27: any two executed compaction passes are at least the interval
\* (7 days) of elapsed time apart.
C27_CompactionOncePerInterval ==
  \A i, j \in Compactions :
    i < j => ledgerLog[j].at - ledgerLog[i].at
               >= DEFAULT_VACUUM_INTERVAL_DAYS * SECONDS_PER_DAY

\* the units a logged call wrote to a (day, scope) key
WrittenByCall(e, k) ==
  SumDeltas(SelectSeq(IncrementsOfCall(e), LAMBDA i : i.key = k))

\* the first day of the retention window at time t
WindowStart(t) == todayKeyPT(t) - DEFAULT_RETENTION_DAYS

\* the keys a logged call writes to
KeysOfCall(e) ==
  IF e.fn = "addUsage" THEN {<<e.dateKey, e.scope>>}
  ELSE {IncrementsOfCall(e)[j].key : j \in 1..Len(IncrementsOfCall(e))}

\* C28: the prune of a sweep deletes exactly the rows whose date key is older
\* than today minus the retention days (35) in Pacific time; every row inside
\* the window, today's included, keeps its used value (plus what the sweeping
\* call itself wrote to it); a call whose prune does not run (no sweep, or
\* the DELETE failed) deletes nothing.
C28_PruneExactlyOutsideWindow ==
  [][Len(ledgerLog') = Len(ledgerLog) + 1 =>
       LET e == LastCall(ledgerLog')
       IN /\ e.pruned =>
               /\ \A k \in DOMAIN quota_usage :
                    IF k[1] < WindowStart(now)
                      THEN k \notin DOMAIN quota_usage'
                      ELSE /\ k \in DOMAIN quota_usage'
                           /\ quota_usage'[k] = quota_usage[k] + WrittenByCall(e, k)
               /\ \A k \in DOMAIN quota_usage' :
                    /\ k[1] >= WindowStart(now)
                    /\ k \notin DOMAIN quota_usage =>
                         (k \in KeysOfCall(e) /\ quota_usage'[k] = WrittenByCall(e, k))
               /\ quota_meta'["last_prune_pt"]
                    \in {todayKeyPT(now), quota_meta["last_prune_pt"]}
          /\ ~e.pruned =>
               /\ \A k \in DOMAIN quota_usage :
                    /\ k \in DOMAIN quota_usage'
                    /\ quota_usage'[k] = quota_usage[k] + WrittenByCall(e, k)
               /\ quota_meta'["last_prune_pt"] = quota_meta["last_prune_pt"]]_vars

C28_Witness ==
  /\ Len(ledgerLog) = 3
  /\ ledgerLog[1].fn = "recordQuota" /\ ledgerLog[1].units = 50
  /\ ledgerLog[1].userId = "u1"
  /\ ledgerLog[2].fn = "tick"
  /\ todayKeyPT(now) = todayKeyPT(ledgerLog[1].at) + DEFAULT_RETENTION_DAYS + 1
  /\ ledgerLog[3].fn = "recordQuota" /\ ledgerLog[3].units = 6000
  /\ ledgerLog[3].userId = "u2" /\ ledgerLog[3].pruned
  /\ DOMAIN quota_usage = {<<todayKeyPT(now), "global">>, <<todayKeyPT(now), "u2">>}
  /\ quota_usage[<<todayKeyPT(now), "global">>] = 6000

(* ------------------------ claims about the scopes ----------------------- *)

\* the day keys of the ledger
DayKeys == {k[1] : k \in DOMAIN quota_usage}

\* the days on which the log recorded units
DaysRecorded ==
  {todayKeyPT(ledgerLog[j].at) :
     j \in {i \in 1..Len(ledgerLog) :
              ledgerLog[i].fn = "recordQuota" /\ ledgerLog[i].units > 0}}

\* C29: after any sequence of recordQuota calls, for every day key the
\* "global" used value is at least each user's used value and is the sum of
\* all units recorded that day: every recorded unit is counted under "global"
\* exactly once, also when a userId is given.
C29_GlobalIsTotal ==
  NoDirectWrites =>
    \A d \in DayKeys \cup DaysRecorded :
      /\ getUsage(quota_usage, d, "global") = UnitsOn(ledgerLog, d, "any")
      /\ \A u \in Users :
           getUsage(quota_usage, d, "global") >= getUsage(quota_usage, d, u)

\* the scopes of the ledger other than a user's own
OtherScopes(u) == (Users \ {u}) \cup {"global"}

\* the used values tried for the rows of the other scopes
OtherUsed == {0, 50, 6000, 20000}

\* the rows tried for the other scopes: absent (-1) or present with one of
\* the values
OtherRows(u) == [OtherScopes(u) -> OtherUsed \cup {-1}]

\* the ledger that has the same row of today (day key tk) for user u as the
\* ledger has, the same rows of the days before, and for today the rows of
\* the other scopes
LedgerAgreeingOn(u, tk, rows) ==
  LET past == {k \in DOMAIN quota_usage : k[1] # tk}
  IN [k \in past \cup {<<tk, u>>}
             \cup {<<tk, sc>> : sc \in {x \in OtherScopes(u) : rows[x] # -1}} |->
        IF k[1] = tk /\ k[2] # u THEN rows[k[2]] ELSE quota_usage[k]]

\* C30: for a user whose own usage of today is > 0, getTodayQuota(userId)
\* gives used = the user's own usage and remain = max(0, budget - used) on
\* every ledger that has the same row for the user, whatever the other
\* scopes hold; the quota route shows the same.
C30_OwnUsageShown ==
  \A u \in Users :
    LET mine == TodayRow(u)
    IN mine > 0 =>
         LET own == getTodayQuota(quota_usage, now, u)
             shown == GetQuota(quota_usage, now, u)
             tk == todayKeyPT(now)
         IN \A rows \in OtherRows(u) :
              LET other == LedgerAgreeingOn(u, tk, rows)
                  q == getTodayQuota(other, now, u)
              IN /\ q.used = own.used
                 /\ q.remain = own.remain
                 /\ q.used = mine
                 /\ GetQuota(other, now, u) = shown

C30_Witness ==
  /\ TodayRow("u1") = 50
  /\ TodayRow("u2") = 6000
  /\ TodayRow("global") = 6050
  /\ getTodayQuota(quota_usage, now, "u1").used = 50
  /\ getTodayQuota(quota_usage, now, "u1").remain = DAILY_BUDGET - 50
  /\ GetQuota(quota_usage, now, "u1").todayUsed = 50

(* --------------------- claims about withTransaction --------------------- *)

\* C31: withTransaction releases the connection it acquired exactly once on
\* every path (success, fn throws, COMMIT fails, ROLLBACK fails), not before
\* it is through with it, and the caller gets fn's result only when COMMIT
\* succeeded; in every other case it gets an error.
C31_ReleaseOnceResultOnlyOnCommit ==
  \A r \in Requests :
    /\ conn[r].acquired <= 1
    /\ conn[r].released <= conn[r].acquired
    /\ pc[r] = "done" => conn[r].released = conn[r].acquired
    /\ pc[r] \notin {"idle", "done"} => (conn[r].acquired = 1 /\ conn[r].released = 0)
    /\ resp[r].kind = "ok" =>
         /\ txState[r] = "committed"
         /\ resp[r].action = txAction[r]
         /\ resp[r].action \in TxResults(r)
         /\ conn[r].released = 1
    /\ (pc[r] = "done" /\ txState[r] # "committed") => resp[r].kind = "error"
    /\ (pc[r] = "done" /\ txState[r] = "committed") => resp[r].kind = "ok"

C31_Witness ==
  \E r1, r2 \in Requests :
    /\ pc[r1] = "done" /\ resp[r1].code = "rollback_error"
    /\ txAction[r1] # NoRow
    /\ conn[r1] = [acquired |-> 1, released |-> 1]
    /\ pc[r2] = "done" /\ resp[r2].kind = "ok" /\ txState[r2] = "committed"
    /\ conn[r2] = [acquired |-> 1, released |-> 1]

(* ------------------------ claims about the listings --------------------- *)

\* C32: in the paged playlist-items listing the ledger gains 1 unit, under
\* "global" and under the userId, for every list call that returned a page,
\* also for the pages fetched before a later call fails: what is recorded is
\* at every moment the number of list calls that succeeded.
C32_ListCostIsPagesFetched ==
  \A r \in Requests :
    req[r].op = "LIST_ITEMS" =>
      /\ charged[r] = PagesFetched(calls[r])
      /\ getUsage(quota_usage, todayKeyPT(now), "global") = ChargedSum(NReq, "global")
      /\ req[r].userId # "none" =>
           getUsage(quota_usage, todayKeyPT(now), req[r].userId)
             = ChargedSum(NReq, req[r].userId)
      /\ ChargedSum(NReq, "global") = PagesFetched(calls[r])

====
